---- MODULE Spec2Model ----
(***************************************************************************)
(* A model of the Columbus IPC driver (src/IPC-driver/columbus_ipc.c):     *)
(* the shared-RAM page ownership registers and the page allocator, the     *)
(* two channel tables, and the blocking send / receive hand-shake with the *)
(* two DSP partners.                                                       *)
(***************************************************************************)
EXTENDS Integers, Sequences, FiniteSets, TLC

(***************************************************************************)
(* Program constants.                                                      *)
(***************************************************************************)
NULL == 0
SHARED_RAM_PAGE_NUM == 32
COLUMBUS_IPC_SRAM_SIZE == 32768
COLUMBUS_IPC_PAGE_SIZE == 1024
IPC_IRQ_CHANNEL_NUM == 8
COLUMBUS_SRAM_RF_VIEW == 1918894080
COLUMBUS_SRAM_PLC_VIEW == 1633681408
A7_RF_IPC_CHANNEL_NUM == 16
A7_PLC_IPC_CHANNEL_NUM == 16
IPC_CHANNEL_USED == 1
IPC_CHANNEL_UNUSED == 0
COLUMBUS_IPC_INVALID == -1
IPC_PARTNER_RF_DSP == 0
IPC_PARTNER_PLC_DSP == 1
IPC_SEND_OPERATION == 0
IPC_RECEIVE_OPERATION == 1
IPC_COMMUNICATION_INT == 0
IPC_COMMUNICATION_POLL == 1
ENOSPC == 28
ENOMEM == 12

\* enum ownership
ownership_free == 0
ownership_a7 == 1
ownership_rf == 2
ownership_plc == 3

\* columbus_ipc.sram: the virtual base of the shared RAM (page aligned).
columbus_ipc_sram == 1048576
\* columbus_ipc.sram_phy: its physical base seen from the A7
columbus_ipc_sram_phy == 536870912
\* the command and the end-of-message marker of columbus_ipc_internal.h
IPC_DATA_READ == 1
IPC_END_MSG == 1

(***************************************************************************)
(* Bounds of the model.                                                    *)
(***************************************************************************)
\* pages that other parties hold before the allocator is exercised
MaxOccupied == 2
\* threads that acquire and release channels concurrently
NumThreads == 2
\* channels one thread holds at a time
MaxHeld == 1
\* pages that may be held when a new send starts
MaxBusyPages == 1
MaxSends == 2
MaxMsgs == 3
MaxProbes == 2
MaxPuts == 2

Pages == 0 .. (SHARED_RAM_PAGE_NUM - 1)

VARIABLES
    srmsel0,    \* SRMSEL0: ownership of pages 0..15, one 2-bit field per page
    srmsel1,    \* SRMSEL1: ownership of pages 16..31
    DEBUG,      \* the build: TRUE when DEBUG is defined (IPC_BUG is BUG_ON)
    panic,      \* TRUE once an IPC_BUG has fired
    ut_pc,      \* position of unittest_sram_operation
    ut_call,    \* the allocator call it made last
    ut_ret,     \* what that call returned
    ut_pre,     \* the ownership registers before that call
    ipc_channel,    \* ipc_rf_channel[] and ipc_plc_channel[], by partner
    tbl_mutex,      \* ipc_rf_req_tbl_mutex, ipc_plc_req_tbl_mutex: the owner, 0 if free
    ct,             \* the threads that call get_channel / put_channel
    a7to_flg,       \* A7TORFIPCFLG / A7TOPLCIPCFLG: the channel bits that are set
    a7to_hdr,       \* A7TOxIPCCOMM, ADDR, DATA0, DATA1 of each partner
    toa7_sts,       \* RFTOA7IPCSTS / PLCTOA7IPCSTS: the channel bits that are set
    sram_mem,       \* the shared RAM: which message each page holds, 0 if none
    sram_mutex,     \* ipc_sram_mutex: the owner, 0 if free
    st,             \* the threads that call columbus_ipc_send_message
    nsend,          \* the number of send calls made so far
    toa7_hdr,       \* RFTOA7IPC / PLCTOA7IPC COMM, ADDR, DATA0, DATA1 of each partner
    ipc_irq,        \* columbus_ipc.ipc_irq[]: the irq line and irq_done of each
    rv,             \* the thread that calls columbus_ipc_receive_message
    hist,           \* the messages the partner signalled, those receive returned
    cu,             \* the caller of unittest_channel_operation: its last call
    mv              \* the Marvell IPC driver, its devices and its remote sides

sramVars == <<srmsel0, srmsel1>>
utVars == <<ut_pc, ut_call, ut_ret, ut_pre>>
buildVars == <<DEBUG, panic>>
chanVars == <<ipc_channel, tbl_mutex, ct>>

hwVars == <<a7to_flg, a7to_hdr, toa7_sts, sram_mem>>
sendVars == <<sram_mutex, st, nsend>>
recvVars == <<toa7_hdr, ipc_irq, rv, hist>>
cuVars == <<cu>>
mvVars == <<mv>>

\* what the steps of one part of the driver leave alone
utFrame == <<chanVars, hwVars, sendVars, recvVars, cuVars, mvVars>>
chFrame == <<sramVars, utVars, DEBUG, hwVars, sendVars, recvVars, cuVars, mvVars>>
sendFrame == <<utVars, DEBUG, tbl_mutex, ct, nsend, recvVars, cuVars, mvVars>>
recvFrame == <<utVars, DEBUG, tbl_mutex, ct, a7to_flg, a7to_hdr, sendVars, cuVars, mvVars>>
cuFrame == <<sramVars, utVars, DEBUG, tbl_mutex, ct, hwVars, sendVars, recvVars,
            mvVars>>
mvFrame == <<sramVars, buildVars, utVars, chanVars, hwVars, sendVars, recvVars,
            cuVars>>

(***************************************************************************)
(* The ownership registers.  A 32-bit status register is kept as its 16    *)
(* two-bit fields: field k is (status >> (k << 1)) & 0x3.                  *)
(***************************************************************************)
Regs == <<srmsel0, srmsel1>>

AllFree == [k \in 0..15 |-> ownership_free]

\* ioread32(SRMSEL0 + 4 * srmsel)
ioread32_SRMSEL(regs, srmsel) == regs[srmsel + 1]

get_sram_page_ownership(regs, page_num) ==
    LET srmsel == page_num \div 16
        bit_position == page_num % 16
        status == ioread32_SRMSEL(regs, srmsel)
    IN  status[bit_position]

\* The hardware's answer to a write of (key << 4) | requested to the request
\* register of page_num by party `who`: a free page goes to the requester,
\* a page of the requester goes back to free, anything else is refused.
HwRequest(regs, page_num, who, requested) ==
    LET srmsel == page_num \div 16
        bit_position == page_num % 16
        cur == regs[srmsel + 1][bit_position]
        granted == \/ (requested = who /\ cur = ownership_free)
                   \/ (requested = ownership_free /\ cur = who)
    IN  IF granted
        THEN [regs EXCEPT ![srmsel + 1][bit_position] = requested]
        ELSE regs

\* One write to a request register A7SRPxxREQ: the page, the ownership
\* asked for, the ownership the caller read before it wrote, and the
\* ownership the page had when the write reached the hardware.
Request(regs, page_num, requested, read) ==
    [page |-> page_num, requested |-> requested, read |-> read,
     cur |-> get_sram_page_ownership(regs, page_num)]

\* grab_one_sram_page without the read back after the request
grab_one_sram_page_noreadback(regs, page_num, race) ==
    IF get_sram_page_ownership(regs, page_num) # ownership_free
    THEN [regs |-> regs, ret |-> 0, req |-> <<>>]
    ELSE LET raced == IF race = 0 THEN regs
                      ELSE HwRequest(regs, page_num, race, race)
         IN  [regs |-> HwRequest(raced, page_num, ownership_a7, ownership_a7),
              ret |-> 1,
              req |-> <<Request(raced, page_num, ownership_a7,
                                ownership_free)>>]

\* grab_one_sram_page without the test of the ownership before the request
grab_one_sram_page_nofirstread(regs, page_num, race) ==
    LET read == get_sram_page_ownership(regs, page_num)
        raced == IF race = 0 THEN regs
                 ELSE HwRequest(regs, page_num, race, race)
        after == HwRequest(raced, page_num, ownership_a7, ownership_a7)
    IN  [regs |-> after,
         ret |-> IF get_sram_page_ownership(after, page_num) # ownership_a7
                 THEN 0 ELSE 1,
         req |-> <<Request(raced, page_num, ownership_a7, read)>>]

\* grab_one_sram_page; race is the partner (ownership_rf / ownership_plc)
\* whose own request for the page reaches the hardware between the first
\* read and the write, or 0 when there is none.
grab_one_sram_page(regs, page_num, race) ==
    IF get_sram_page_ownership(regs, page_num) # ownership_free
    THEN [regs |-> regs, ret |-> 0, req |-> <<>>]
    ELSE LET raced == IF race = 0 THEN regs
                      ELSE HwRequest(regs, page_num, race, race)
             after == HwRequest(raced, page_num, ownership_a7, ownership_a7)
             req == <<Request(raced, page_num, ownership_a7, ownership_free)>>
         IN  IF get_sram_page_ownership(after, page_num) # ownership_a7
             THEN [regs |-> after, ret |-> 0, req |-> req]
             ELSE [regs |-> after, ret |-> 1, req |-> req]

\* release_one_sram_page without the IPC_BUG in front of the request
release_one_sram_page_nocheck(regs, page_num, debug) ==
    LET after == HwRequest(regs, page_num, ownership_a7, ownership_free)
    IN  [regs |-> after,
         bug |-> debug /\
                 get_sram_page_ownership(after, page_num) # ownership_free,
         req |-> <<Request(regs, page_num, ownership_free,
                           get_sram_page_ownership(regs, page_num))>>]

\* release_one_sram_page; bug is TRUE when one of its IPC_BUGs fires.
release_one_sram_page(regs, page_num, debug) ==
    IF debug /\ get_sram_page_ownership(regs, page_num) # ownership_a7
    THEN [regs |-> regs, bug |-> TRUE, req |-> <<>>]
    ELSE LET after == HwRequest(regs, page_num, ownership_a7, ownership_free)
         IN  [regs |-> after,
              bug |-> debug /\
                      get_sram_page_ownership(after, page_num) # ownership_free,
              req |-> <<Request(regs, page_num, ownership_free,
                                get_sram_page_ownership(regs, page_num))>>]

\* field i of the 64-bit value (srmsel1 << 32) | srmsel0
sram_ownership_status(regs, i) ==
    IF i < 16 THEN regs[1][i] ELSE regs[2][i - 16]

\* the search loop without the reset of start at an occupied page
RECURSIVE find_loop_noreset(_, _, _, _, _)
find_loop_noreset(regs, npages, i, count, start) ==
    IF i >= 32
    THEN [count |-> count, start |-> start]
    ELSE IF sram_ownership_status(regs, i) = ownership_free
         THEN LET c == count + 1
                  s == IF start = -1 THEN i ELSE start
              IN  IF c >= npages
                  THEN [count |-> c, start |-> s]
                  ELSE find_loop_noreset(regs, npages, i + 1, c, s)
         ELSE find_loop_noreset(regs, npages, i + 1, 0, start)

RECURSIVE find_loop(_, _, _, _, _)
find_loop(regs, npages, i, count, start) ==
    IF i >= 32
    THEN [count |-> count, start |-> start]
    ELSE IF sram_ownership_status(regs, i) = ownership_free
         THEN LET c == count + 1
                  s == IF start = -1 THEN i ELSE start
              IN  IF c >= npages
                  THEN [count |-> c, start |-> s]
                  ELSE find_loop(regs, npages, i + 1, c, s)
         ELSE find_loop(regs, npages, i + 1, 0, -1)

\* find_consecutive_free_sram_pages: ret is its return value, page_num what
\* it stored through the pointer (the caller's -1 when it stored nothing).
find_consecutive_free_sram_pages(regs, npages) ==
    LET r == find_loop(regs, npages, 0, 0, -1)
    IN  IF r.count = npages
        THEN [ret |-> 1, page_num |-> r.start]
        ELSE [ret |-> 0, page_num |-> -1]

RECURSIVE grab_loop(_, _, _, _, _)
grab_loop(regs, page_num, npages, i, race) ==
    IF i >= npages
    THEN [regs |-> regs, i |-> i, req |-> <<>>]
    ELSE LET g == grab_one_sram_page(regs, page_num + i,
                                     IF race[1] = i THEN race[2] ELSE 0)
         IN  IF g.ret = 0
             THEN [regs |-> g.regs, i |-> i, req |-> g.req]
             ELSE LET r == grab_loop(g.regs, page_num, npages, i + 1, race)
                  IN  [regs |-> r.regs, i |-> r.i, req |-> g.req \o r.req]

\* try_to_grab_sram_pages giving back what it grabbed when a page fails
try_to_grab_sram_pages_rollback(regs, page_num, npages, race) ==
    LET f == IF page_num = -1
             THEN find_consecutive_free_sram_pages(regs, npages)
             ELSE [ret |-> 1, page_num |-> page_num]
    IN  IF f.ret = 0
        THEN [regs |-> regs, ret |-> -1, req |-> <<>>]
        ELSE LET g == grab_loop(regs, f.page_num, npages, 0, race)
             IN  IF g.i = npages
                 THEN [regs |-> g.regs, ret |-> f.page_num, req |-> g.req]
                 ELSE [regs |-> regs, ret |-> -1, req |-> g.req]

\* try_to_grab_sram_pages, run without another local thread in between;
\* race = <<k, partner>> lets a partner win the k-th page of the run.
try_to_grab_sram_pages(regs, page_num, npages, race) ==
    LET f == IF page_num = -1
             THEN find_consecutive_free_sram_pages(regs, npages)
             ELSE [ret |-> 1, page_num |-> page_num]
    IN  IF f.ret = 0
        THEN [regs |-> regs, ret |-> -1, req |-> <<>>]
        ELSE LET g == grab_loop(regs, f.page_num, npages, 0, race)
             IN  [regs |-> g.regs,
                  ret |-> IF g.i = npages THEN f.page_num ELSE -1,
                  req |-> g.req]

RECURSIVE release_loop(_, _, _, _, _)
release_loop(regs, page_num, npages, i, debug) ==
    IF i >= npages
    THEN [regs |-> regs, bug |-> FALSE, req |-> <<>>]
    ELSE LET r == release_one_sram_page(regs, page_num + i, debug)
         IN  IF r.bug THEN r
             ELSE LET l == release_loop(r.regs, page_num, npages, i + 1, debug)
                  IN  [regs |-> l.regs, bug |-> l.bug, req |-> r.req \o l.req]

free_sram_pages(regs, page_num, npages, debug) ==
    release_loop(regs, page_num, npages, 0, debug)

\* the page count with one page always added
size2npages_plus1(size) == (size \div COLUMBUS_IPC_PAGE_SIZE) + 1

\* npages = size / COLUMBUS_IPC_PAGE_SIZE, one more if size is no multiple
size2npages(size) ==
    (size \div COLUMBUS_IPC_PAGE_SIZE) +
    (IF size % COLUMBUS_IPC_PAGE_SIZE # 0 THEN 1 ELSE 0)

\* the checks of ipc_sram_alloc without the test of the alignment
sram_alloc_reject_noalign(addr, size) ==
    \/ size <= 0
    \/ size > COLUMBUS_IPC_SRAM_SIZE
    \/ addr # NULL /\ (addr < columbus_ipc_sram \/
                        addr >= columbus_ipc_sram + COLUMBUS_IPC_SRAM_SIZE)

\* the requests ipc_sram_alloc turns down before it looks for pages
sram_alloc_reject(addr, size) ==
    \/ size <= 0
    \/ size > COLUMBUS_IPC_SRAM_SIZE
    \/ addr % COLUMBUS_IPC_PAGE_SIZE # 0
    \/ addr # NULL /\ (addr < columbus_ipc_sram \/
                        addr >= columbus_ipc_sram + COLUMBUS_IPC_SRAM_SIZE)

\* the start page of a request: the page of addr, -1 when addr is NULL
sram_alloc_page(addr) ==
    IF addr # NULL
    THEN (addr - columbus_ipc_sram) \div COLUMBUS_IPC_PAGE_SIZE
    ELSE -1

ipc_sram_alloc(regs, addr, size, race) ==
    IF sram_alloc_reject(addr, size)
    THEN [regs |-> regs, ret |-> NULL, req |-> <<>>]
    ELSE LET g == try_to_grab_sram_pages(regs, sram_alloc_page(addr),
                                         size2npages(size), race)
         IN  [regs |-> g.regs,
              ret |-> IF g.ret # -1
                      THEN columbus_ipc_sram + g.ret * COLUMBUS_IPC_PAGE_SIZE
                      ELSE NULL,
              req |-> g.req]

\* ipc_sram_free with the page count rounded down
ipc_sram_free_rounddown(regs, addr, size, debug) ==
    free_sram_pages(regs,
                    (addr - columbus_ipc_sram) \div COLUMBUS_IPC_PAGE_SIZE,
                    size \div COLUMBUS_IPC_PAGE_SIZE, debug)

\* the page count of ipc_sram_free rounded down
free_size2npages_rounddown(size) == size \div COLUMBUS_IPC_PAGE_SIZE

\* the page count as ipc_sram_free computes it
free_size2npages(size) ==
    (size \div COLUMBUS_IPC_PAGE_SIZE) +
    (IF size % COLUMBUS_IPC_PAGE_SIZE # 0 THEN 1 ELSE 0)

\* the IPC_BUG checks at the head of ipc_sram_free
sram_free_bug(addr, size) ==
    \/ size <= 0
    \/ size > COLUMBUS_IPC_SRAM_SIZE
    \/ addr = NULL
    \/ addr % COLUMBUS_IPC_PAGE_SIZE # 0
    \/ addr < columbus_ipc_sram
    \/ addr >= columbus_ipc_sram + COLUMBUS_IPC_SRAM_SIZE

ipc_sram_free(regs, addr, size, debug) ==
    IF debug /\ sram_free_bug(addr, size)
    THEN [regs |-> regs, bug |-> TRUE, req |-> <<>>]
    ELSE LET page_num == (addr - columbus_ipc_sram) \div COLUMBUS_IPC_PAGE_SIZE
         IN  free_sram_pages(regs, page_num, free_size2npages(size), debug)

pagenum2pageaddr(page_num) ==
    IF page_num = -1 THEN NULL
    ELSE columbus_ipc_sram + page_num * COLUMBUS_IPC_PAGE_SIZE

pageaddr2pagenum(page_addr) ==
    (page_addr - columbus_ipc_sram) \div COLUMBUS_IPC_PAGE_SIZE

(***************************************************************************)
(* unittest_sram_operation: the allocator exercised by one thread.  Other  *)
(* parties first take some pages, then one allocator call is made, and a   *)
(* successful grab / alloc is undone by the matching release / free.       *)
(***************************************************************************)
Owners == {ownership_a7, ownership_rf, ownership_plc}
Partners == {ownership_rf, ownership_plc}

\* the pages unittest_sram_operation occupies for its search tests
UnitTestPages == {2, 6, 11, 17, 24}

\* message and buffer sizes handed to the allocator
AllocSizes == {-1, 0, 1, 1000, 1024, 1025, 2000, 7000, 14336, 14337, 32768, 32769}

\* a partner winning the k-th page of a run: <<k, partner>>; <<-1, 0>>: none
Races == {<<-1, 0>>, <<0, ownership_rf>>, <<1, ownership_plc>>}

Occupied(regs) == {p \in Pages : sram_ownership_status(regs, p) # ownership_free}

\* the pages a partner DSP holds
DspPages(regs) == {p \in Pages : sram_ownership_status(regs, p) \in Partners}

NoCall == [op |-> "none", a1 |-> 0, a2 |-> 0, req |-> <<>>]

InitSram ==
    /\ srmsel0 = AllFree
    /\ srmsel1 = AllFree

InitUt ==
    /\ ut_pc = "setup"
    /\ ut_call = NoCall
    /\ ut_ret = 0
    /\ ut_pre = <<AllFree, AllFree>>

\* who holds page p when another party holds it: the local side (another
\* driver thread), the RF DSP or the PLC DSP, by the page's position
OccupierOf(p) == 1 + (p % 3)

\* another party takes a free page: the local side through
\* grab_one_sram_page, a partner through its own request register
UtOccupy(p) ==
    /\ UNCHANGED utFrame
    /\ ut_pc = "setup"
    /\ Cardinality(Occupied(Regs)) < MaxOccupied
    /\ get_sram_page_ownership(Regs, p) = ownership_free
    /\ LET who == OccupierOf(p)
           after == IF who = ownership_a7
                    THEN grab_one_sram_page(Regs, p, 0).regs
                    ELSE HwRequest(Regs, p, who, who)
       IN  /\ srmsel0' = after[1]
           /\ srmsel1' = after[2]
    /\ UNCHANGED <<utVars, DEBUG, panic>>

RECURSIVE grab_pages(_, _)
grab_pages(regs, todo) ==
    IF todo = {} THEN regs
    ELSE LET p == CHOOSE q \in todo : \A r \in todo : q <= r
         IN  grab_pages(grab_one_sram_page(regs, p, 0).regs, todo \ {p})

\* the unit test's pattern: pages 2, 6, 11, 17 and 24 grabbed, or the same
\* after free_sram_pages(24, 1)
UtPattern(with24) ==
    /\ UNCHANGED utFrame
    /\ ut_pc = "setup"
    /\ Occupied(Regs) = {}
    /\ LET after == grab_pages(Regs, IF with24 THEN UnitTestPages
                                     ELSE UnitTestPages \ {24})
       IN  /\ srmsel0' = after[1]
           /\ srmsel1' = after[2]
    /\ ut_pc' = "pattern"
    /\ UNCHANGED <<ut_call, ut_ret, ut_pre, DEBUG, panic>>

UtReady == ut_pc \in {"setup", "pattern"} /\ ~panic

UtFind(n) ==
    /\ UNCHANGED utFrame
    /\ UtReady
    /\ LET f == find_consecutive_free_sram_pages(Regs, n)
       IN  /\ ut_call' = [op |-> "find", a1 |-> n, a2 |-> 0, req |-> <<>>]
           /\ ut_ret' = <<f.ret, f.page_num>>
    /\ ut_pc' = "found"
    /\ ut_pre' = Regs
    /\ UNCHANGED <<sramVars, DEBUG, panic>>

UtGrab(p, race) ==
    /\ UNCHANGED utFrame
    /\ UtReady
    /\ LET g == grab_one_sram_page(Regs, p, race)
       IN  /\ srmsel0' = g.regs[1]
           /\ srmsel1' = g.regs[2]
           /\ ut_ret' = g.ret
           /\ ut_call' = [op |-> "grab", a1 |-> p, a2 |-> race, req |-> g.req]
    /\ ut_pc' = "grabbed"
    /\ ut_pre' = Regs
    /\ UNCHANGED <<DEBUG, panic>>

\* release_one_sram_page(p) after grab_one_sram_page(p) returned 1
UtRelease ==
    /\ UNCHANGED utFrame
    /\ ut_pc = "grabbed" /\ ut_ret = 1 /\ ~panic
    /\ LET r == release_one_sram_page(Regs, ut_call.a1, DEBUG)
       IN  /\ srmsel0' = r.regs[1]
           /\ srmsel1' = r.regs[2]
           /\ panic' = r.bug
           /\ ut_call' = [ut_call EXCEPT !.req = r.req]
    /\ ut_pc' = "released"
    /\ UNCHANGED <<ut_ret, ut_pre, DEBUG>>

UtAlloc(addr, size, race) ==
    /\ UNCHANGED utFrame
    /\ UtReady
    /\ ~sram_alloc_reject(addr, size) /\ addr # NULL =>
          pageaddr2pagenum(addr) + size2npages(size) <= SHARED_RAM_PAGE_NUM
    /\ LET a == ipc_sram_alloc(Regs, addr, size, race)
       IN  /\ srmsel0' = a.regs[1]
           /\ srmsel1' = a.regs[2]
           /\ ut_ret' = a.ret
           /\ ut_call' = [op |-> "alloc", a1 |-> addr, a2 |-> size,
                          req |-> a.req]
    /\ ut_pc' = "alloced"
    /\ ut_pre' = Regs
    /\ UNCHANGED <<DEBUG, panic>>

\* ipc_sram_free(page, size) with the address ipc_sram_alloc returned
UtFree ==
    /\ UNCHANGED utFrame
    /\ ut_pc = "alloced" /\ ut_ret # NULL /\ ~panic
    /\ LET r == ipc_sram_free(Regs, ut_ret, ut_call.a2, DEBUG)
       IN  /\ srmsel0' = r.regs[1]
           /\ srmsel1' = r.regs[2]
           /\ panic' = r.bug
           /\ ut_call' = [ut_call EXCEPT !.req = r.req]
    /\ ut_pc' = "freed"
    /\ UNCHANGED <<ut_ret, ut_pre, DEBUG>>

\* try_to_grab_sram_pages(page_num, npages) called directly, as the unit
\* test does after its search tests
TgStarts == {-1, 0, 2, 29}
TgPages == 1 .. 3

UtTryGrab(page_num, npages, race) ==
    /\ UNCHANGED utFrame
    /\ UtReady
    /\ page_num # -1 => page_num + npages <= SHARED_RAM_PAGE_NUM
    /\ LET g == try_to_grab_sram_pages(Regs, page_num, npages, race)
       IN  /\ srmsel0' = g.regs[1]
           /\ srmsel1' = g.regs[2]
           /\ ut_ret' = g.ret
           /\ ut_call' = [op |-> "trygrab", a1 |-> page_num, a2 |-> npages,
                          race |-> race, req |-> g.req]
    /\ ut_pc' = "trygrabbed"
    /\ ut_pre' = Regs
    /\ UNCHANGED <<DEBUG, panic>>

\* release_one_sram_page(p) for any page, whoever holds it
UtReleasePage(p) ==
    /\ UNCHANGED utFrame
    /\ UtReady
    /\ LET r == release_one_sram_page(Regs, p, DEBUG)
       IN  /\ srmsel0' = r.regs[1]
           /\ srmsel1' = r.regs[2]
           /\ panic' = r.bug
           /\ ut_call' = [op |-> "release", a1 |-> p, a2 |-> 0, req |-> r.req]
    /\ ut_pc' = "released1"
    /\ ut_ret' = 0
    /\ ut_pre' = Regs
    /\ UNCHANGED DEBUG

PinnedAddrs == {NULL, pagenum2pageaddr(2), pagenum2pageaddr(3),
                columbus_ipc_sram + 100,
                columbus_ipc_sram - COLUMBUS_IPC_PAGE_SIZE,
                columbus_ipc_sram + COLUMBUS_IPC_SRAM_SIZE}

NextSram ==
    \/ \E p \in Pages : UtOccupy(p)
    \/ \E b \in BOOLEAN : UtPattern(b)
    \/ \E n \in 1..SHARED_RAM_PAGE_NUM : UtFind(n)
    \/ \E p \in Pages, race \in {0} \cup Partners : UtGrab(p, race)
    \/ UtRelease
    \/ \E size \in AllocSizes, race \in Races : UtAlloc(NULL, size, race)
    \/ \E addr \in PinnedAddrs \ {NULL}, size \in {1000, 2000} :
          UtAlloc(addr, size, <<-1, 0>>)
    \/ UtFree
    \/ \E page_num \in TgStarts, npages \in TgPages, race \in Races :
          UtTryGrab(page_num, npages, race)
    \/ \E p \in Pages : UtReleasePage(p)

(***************************************************************************)
(* ipc_sram_alloc with a requested address whose run may pass the end of   *)
(* the region.  ipc_sram_alloc checks the address, not address + size, so  *)
(* the grab loop of try_to_grab_sram_pages goes on to page_num + i >= 32.  *)
(* There get_sram_page_ownership stops at its IPC_BUG in a DEBUG build;    *)
(* otherwise it reads the word after SRMSEL1 and grab_one_sram_page may    *)
(* write past the request registers: what those reads return is not        *)
(* determined by the driver, `beyond` is the number of grabs past page 31  *)
(* that look successful.                                                   *)
(***************************************************************************)
\* the pinned branch of try_to_grab_sram_pages with no partner in between;
\* top is the highest page index whose ownership was read
try_to_grab_pinned(regs, page_num, npages, debug, beyond) ==
    LET room == SHARED_RAM_PAGE_NUM - page_num
        inside == IF npages <= room THEN npages ELSE room
        over == npages - inside
        g == grab_loop(regs, page_num, inside, 0, <<-1, 0>>)
    IN  IF g.i < inside
        THEN [regs |-> g.regs, ret |-> -1, bug |-> FALSE,
              top |-> page_num + g.i]
        ELSE IF over = 0
        THEN [regs |-> g.regs, ret |-> page_num, bug |-> FALSE,
              top |-> page_num + npages - 1]
        ELSE IF debug
        THEN [regs |-> g.regs, ret |-> -1, bug |-> TRUE,
              top |-> SHARED_RAM_PAGE_NUM]
        ELSE [regs |-> g.regs,
              ret |-> IF beyond >= over THEN page_num ELSE -1,
              bug |-> FALSE,
              top |-> SHARED_RAM_PAGE_NUM +
                      (IF beyond >= over THEN over - 1 ELSE beyond)]

\* requested addresses: pages 2, 30 and 31
PinPages == {2, 30, 31}
\* sizes of 1, 2 and 3 pages
PinSizes == {1000, 2000, 3000}

\* ipc_sram_alloc(pagenum2pageaddr(page), size)
UtAllocPinned(page, size, beyond) ==
    /\ UNCHANGED utFrame
    /\ UtReady
    /\ ~sram_alloc_reject(pagenum2pageaddr(page), size)
    /\ beyond # 0 => ~DEBUG /\ page + size2npages(size) > SHARED_RAM_PAGE_NUM
    /\ LET g == try_to_grab_pinned(Regs, sram_alloc_page(pagenum2pageaddr(page)),
                                   size2npages(size), DEBUG, beyond)
       IN  /\ srmsel0' = g.regs[1]
           /\ srmsel1' = g.regs[2]
           /\ panic' = g.bug
           /\ ut_ret' = IF g.ret # -1
                        THEN columbus_ipc_sram + g.ret * COLUMBUS_IPC_PAGE_SIZE
                        ELSE NULL
           /\ ut_call' = [op |-> "pinned", a1 |-> page, a2 |-> size2npages(size),
                          top |-> g.top, req |-> <<>>]
    /\ ut_pc' = "alloced"
    /\ ut_pre' = Regs
    /\ UNCHANGED DEBUG

\* other parties hold up to MaxOccupied pages, then one pinned allocation
NextPin ==
    \/ \E p \in Pages : UtOccupy(p)
    \/ \E page \in PinPages, size \in PinSizes, beyond \in 0 .. 2 :
          UtAllocPinned(page, size, beyond)

(***************************************************************************)
(* The channel tables.  A handle is the address of a slot: <<partner, i>>. *)
(***************************************************************************)
Threads == 1 .. NumThreads
PartnerIds == {IPC_PARTNER_RF_DSP, IPC_PARTNER_PLC_DSP}
Slots == 0 .. (A7_RF_IPC_CHANNEL_NUM - 1)
COLUMBUS_IPC_REQ_MAGIC_1 == 1229996849
COLUMBUS_IPC_REQ_MAGIC_2 == 1229996850

\* a slot of the zero-initialised static tables
ZeroChannel == [magic_1 |-> 0, used |-> 0, partner |-> 0, operation |-> 0,
                mode |-> 0, magic_2 |-> 0]

\* get_max_channel without the interrupt-mode bound
get_max_channel_all16(operation, mode) == A7_RF_IPC_CHANNEL_NUM

get_max_channel(operation, mode) ==
    IF mode = IPC_COMMUNICATION_INT THEN IPC_IRQ_CHANNEL_NUM
    ELSE A7_RF_IPC_CHANNEL_NUM

\* a mutex_lock that returns whoever owns the mutex
mutex_never_blocks(owner) == TRUE

\* mutex_lock returns only when the mutex has no owner
mutex_is_free(owner) == owner = 0

\* get_free_channel scanning from the highest index
get_free_channel_highest(channels, max_channel, appointed_channel) ==
    IF appointed_channel # COLUMBUS_IPC_INVALID
    THEN IF channels[appointed_channel].used = IPC_CHANNEL_UNUSED
         THEN appointed_channel
         ELSE -1
    ELSE LET free == {i \in 0 .. (max_channel - 1) :
                         channels[i].used = IPC_CHANNEL_UNUSED}
         IN  IF free = {} THEN -1
             ELSE CHOOSE i \in free : \A k \in free : i >= k

\* get_free_channel without the used test of the appointed slot
get_free_channel_nocheck(channels, max_channel, appointed_channel) ==
    IF appointed_channel # COLUMBUS_IPC_INVALID
    THEN appointed_channel
    ELSE LET free == {i \in 0 .. (max_channel - 1) :
                         channels[i].used = IPC_CHANNEL_UNUSED}
         IN  IF free = {} THEN -1
             ELSE CHOOSE i \in free : \A k \in free : i <= k

\* the slot get_free_channel picks in table channels, -1 for NULL
get_free_channel(channels, max_channel, appointed_channel) ==
    IF appointed_channel # COLUMBUS_IPC_INVALID
    THEN IF channels[appointed_channel].used = IPC_CHANNEL_UNUSED
         THEN appointed_channel
         ELSE -1
    ELSE LET free == {i \in 0 .. (max_channel - 1) :
                         channels[i].used = IPC_CHANNEL_UNUSED}
         IN  IF free = {} THEN -1
             ELSE CHOOSE i \in free : \A k \in free : i <= k

set_ipc_channel(channel, partner, operation, mode) ==
    [channel EXCEPT !.magic_1 = COLUMBUS_IPC_REQ_MAGIC_1,
                    !.mode = mode,
                    !.operation = operation,
                    !.partner = partner,
                    !.magic_2 = COLUMBUS_IPC_REQ_MAGIC_2]

\* clear_ipc_channel leaving the two magic values
clear_ipc_channel_keepmagic(channel) ==
    [channel EXCEPT !.used = IPC_CHANNEL_UNUSED,
                    !.mode = COLUMBUS_IPC_INVALID,
                    !.operation = COLUMBUS_IPC_INVALID,
                    !.partner = COLUMBUS_IPC_INVALID]

clear_ipc_channel(channel) ==
    [channel EXCEPT !.used = IPC_CHANNEL_UNUSED,
                    !.mode = COLUMBUS_IPC_INVALID,
                    !.operation = COLUMBUS_IPC_INVALID,
                    !.partner = COLUMBUS_IPC_INVALID,
                    !.magic_1 = COLUMBUS_IPC_INVALID,
                    !.magic_2 = COLUMBUS_IPC_INVALID]

\* one mutex for both tables
get_lock_single(partner) == IPC_PARTNER_RF_DSP

\* get_lock: the PLC mutex for every partner value other than RF
get_lock(partner) ==
    IF partner = IPC_PARTNER_RF_DSP THEN IPC_PARTNER_RF_DSP
    ELSE IPC_PARTNER_PLC_DSP

\* the IPC_BUG checks at the head of columbus_ipc_put_channel
put_channel_bug(c) ==
    \/ c.magic_1 # COLUMBUS_IPC_REQ_MAGIC_1
    \/ c.magic_2 # COLUMBUS_IPC_REQ_MAGIC_2
    \/ c.used # IPC_CHANNEL_USED
    \/ c.partner \notin {IPC_PARTNER_RF_DSP, IPC_PARTNER_PLC_DSP}
    \/ c.operation \notin {IPC_SEND_OPERATION, IPC_RECEIVE_OPERATION}
    \/ c.mode \notin {IPC_COMMUNICATION_INT, IPC_COMMUNICATION_POLL}

IdleThread == [pc |-> "idle", partner |-> 0, operation |-> 0, mode |-> 0,
               appointed |-> COLUMBUS_IPC_INVALID, channel |-> -1, held |-> {},
               old |-> <<>>]

InitChan ==
    /\ ipc_channel = [p \in PartnerIds |-> [i \in Slots |-> ZeroChannel]]
    /\ tbl_mutex = [p \in PartnerIds |-> 0]
    /\ ct = [t \in Threads |-> IdleThread]

\* the direction a thread asks for
OperationOf(t) == IF t % 2 = 1 THEN IPC_SEND_OPERATION ELSE IPC_RECEIVE_OPERATION

\* indexes a caller appoints
AppointedSet == {COLUMBUS_IPC_INVALID, 0}

\* columbus_ipc_get_channel, up to mutex_lock
ChGetCall(t, partner, mode, appointed) ==
    /\ UNCHANGED chFrame
    /\ ~panic /\ ct[t].pc = "idle"
    /\ Cardinality(ct[t].held) < MaxHeld
    /\ ct' = [ct EXCEPT ![t].pc = "get_lock", ![t].partner = partner,
                        ![t].operation = OperationOf(t), ![t].mode = mode,
                        ![t].appointed = appointed, ![t].channel = -1]
    /\ UNCHANGED <<ipc_channel, tbl_mutex, panic>>

ChGetLock(t) ==
    /\ UNCHANGED chFrame
    /\ ~panic /\ ct[t].pc = "get_lock"
    /\ mutex_is_free(tbl_mutex[get_lock(ct[t].partner)])
    /\ tbl_mutex' = [tbl_mutex EXCEPT ![get_lock(ct[t].partner)] = t]
    /\ ct' = [ct EXCEPT ![t].pc = "get_find"]
    /\ UNCHANGED <<ipc_channel, panic>>

\* get_free_channel: its IPC_BUGs and the search of an unused slot
ChGetFind(t) ==
    /\ UNCHANGED chFrame
    /\ ~panic /\ ct[t].pc = "get_find"
    /\ LET max_channel == get_max_channel(ct[t].operation, ct[t].mode)
           i == get_free_channel(ipc_channel[ct[t].partner], max_channel,
                                 ct[t].appointed)
       IN  IF DEBUG /\ ct[t].appointed # COLUMBUS_IPC_INVALID
                    /\ ct[t].appointed >= max_channel
           THEN panic' = TRUE /\ UNCHANGED ct
           ELSE /\ ct' = [ct EXCEPT ![t].channel = i,
                                    ![t].pc = IF i = -1 THEN "get_unlock"
                                              ELSE "get_mark"]
                /\ UNCHANGED panic
    /\ UNCHANGED <<ipc_channel, tbl_mutex>>

\* get_free_channel: channels[i].used = IPC_CHANNEL_USED
ChGetMark(t) ==
    /\ UNCHANGED chFrame
    /\ ~panic /\ ct[t].pc = "get_mark"
    /\ ipc_channel' = [ipc_channel EXCEPT
                         ![ct[t].partner][ct[t].channel].used = IPC_CHANNEL_USED]
    /\ ct' = [ct EXCEPT ![t].pc = "get_unlock"]
    /\ UNCHANGED <<tbl_mutex, panic>>

ChGetUnlock(t) ==
    /\ UNCHANGED chFrame
    /\ ~panic /\ ct[t].pc = "get_unlock"
    /\ tbl_mutex' = [tbl_mutex EXCEPT ![get_lock(ct[t].partner)] = 0]
    /\ ct' = [ct EXCEPT ![t].pc = "get_set"]
    /\ UNCHANGED <<ipc_channel, panic>>

\* set_ipc_channel on the slot found, and the return of the handle
ChGetSet(t) ==
    /\ UNCHANGED chFrame
    /\ ~panic /\ ct[t].pc = "get_set"
    /\ IF ct[t].channel # -1
       THEN /\ ipc_channel' = [ipc_channel EXCEPT
                 ![ct[t].partner][ct[t].channel] =
                     set_ipc_channel(@, ct[t].partner, ct[t].operation, ct[t].mode)]
            /\ ct' = [ct EXCEPT ![t] = [IdleThread EXCEPT !.held =
                         ct[t].held \cup {<<ct[t].partner, ct[t].channel>>}]]
       ELSE /\ ct' = [ct EXCEPT ![t] = [IdleThread EXCEPT !.held = ct[t].held]]
            /\ UNCHANGED ipc_channel
    /\ UNCHANGED <<tbl_mutex, panic>>

\* columbus_ipc_put_channel on a handle the thread holds, up to mutex_lock
ChPutCall(t, h) ==
    /\ UNCHANGED chFrame
    /\ ~panic /\ ct[t].pc = "idle"
    /\ h \in ct[t].held
    /\ LET c == ipc_channel[h[1]][h[2]]
       IN  IF DEBUG /\ put_channel_bug(c)
           THEN panic' = TRUE /\ UNCHANGED ct
           ELSE /\ ct' = [ct EXCEPT ![t].pc = "put_lock",
                                    ![t].partner = h[1],
                                    ![t].channel = h[2],
                                    ![t].appointed = get_lock(c.partner),
                                    ![t].held = @ \ {h}]
                /\ UNCHANGED panic
    /\ UNCHANGED <<ipc_channel, tbl_mutex>>

ChPutLock(t) ==
    /\ UNCHANGED chFrame
    /\ ~panic /\ ct[t].pc = "put_lock"
    /\ mutex_is_free(tbl_mutex[ct[t].appointed])
    /\ tbl_mutex' = [tbl_mutex EXCEPT ![ct[t].appointed] = t]
    /\ ct' = [ct EXCEPT ![t].pc = "put_clear"]
    /\ UNCHANGED <<ipc_channel, panic>>

ChPutClear(t) ==
    /\ UNCHANGED chFrame
    /\ ~panic /\ ct[t].pc = "put_clear"
    /\ ipc_channel' = [ipc_channel EXCEPT
                         ![ct[t].partner][ct[t].channel] = clear_ipc_channel(@)]
    /\ ct' = [ct EXCEPT ![t].pc = "put_unlock"]
    /\ UNCHANGED <<tbl_mutex, panic>>

ChPutUnlock(t) ==
    /\ UNCHANGED chFrame
    /\ ~panic /\ ct[t].pc = "put_unlock"
    /\ tbl_mutex' = [tbl_mutex EXCEPT ![ct[t].appointed] = 0]
    /\ ct' = [ct EXCEPT ![t] = [IdleThread EXCEPT !.held = ct[t].held]]
    /\ UNCHANGED <<ipc_channel, panic>>

NextChan ==
    \/ \E t \in Threads, partner \in PartnerIds,
          mode \in {IPC_COMMUNICATION_INT, IPC_COMMUNICATION_POLL},
          appointed \in AppointedSet : ChGetCall(t, partner, mode, appointed)
    \/ \E t \in Threads : ChGetLock(t)
    \/ \E t \in Threads : ChGetFind(t)
    \/ \E t \in Threads : ChGetMark(t)
    \/ \E t \in Threads : ChGetUnlock(t)
    \/ \E t \in Threads : ChGetSet(t)
    \/ \E t \in Threads, h \in PartnerIds \X Slots : ChPutCall(t, h)
    \/ \E t \in Threads : ChPutLock(t)
    \/ \E t \in Threads : ChPutClear(t)
    \/ \E t \in Threads : ChPutUnlock(t)

(***************************************************************************)
(* Callers that keep a handle after releasing it.  A handle is the address *)
(* of the slot, so the handle a thread released and the handle the next    *)
(* holder of the slot gets are the same value.  Whole calls, one at a      *)
(* time; ct[t].old is the handle thread t released last, ct[t].pc the call *)
(* it made last.                                                           *)
(***************************************************************************)
\* a whole columbus_ipc_get_channel by thread t
OwnGet(t, partner, mode, appointed) ==
    /\ UNCHANGED chFrame
    /\ ~panic
    /\ Cardinality(ct[t].held) < MaxHeld
    /\ LET max_channel == get_max_channel(OperationOf(t), mode)
           i == get_free_channel(ipc_channel[partner], max_channel, appointed)
       IN  IF DEBUG /\ appointed # COLUMBUS_IPC_INVALID /\ appointed >= max_channel
           THEN panic' = TRUE /\ UNCHANGED <<ipc_channel, ct>>
           ELSE /\ UNCHANGED panic
                /\ ipc_channel' =
                      IF i = -1 THEN ipc_channel
                      ELSE [ipc_channel EXCEPT ![partner][i] =
                              set_ipc_channel([@ EXCEPT !.used = IPC_CHANNEL_USED],
                                              partner, OperationOf(t), mode)]
                /\ ct' = [ct EXCEPT ![t].pc = "got",
                             ![t].held = IF i = -1 THEN @ ELSE @ \cup {<<partner, i>>}]
    /\ UNCHANGED tbl_mutex

\* a whole columbus_ipc_put_channel on the slot of handle h
put_whole(t, h, call) ==
    LET c == ipc_channel[h[1]][h[2]]
    IN  IF DEBUG /\ put_channel_bug(c)
        THEN panic' = TRUE /\ UNCHANGED ipc_channel
                           /\ ct' = [ct EXCEPT ![t].pc = call]
        ELSE /\ UNCHANGED panic
             /\ ipc_channel' = [ipc_channel EXCEPT ![h[1]][h[2]] =
                                   clear_ipc_channel(@)]
             /\ ct' = [ct EXCEPT ![t].pc = call, ![t].old = h,
                                 ![t].held = @ \ {h}]

\* thread t releases a handle it holds
OwnPut(t, h) ==
    /\ UNCHANGED chFrame
    /\ ~panic /\ h \in ct[t].held
    /\ put_whole(t, h, "put")
    /\ UNCHANGED tbl_mutex

\* thread t calls columbus_ipc_put_channel again on the handle it released
OwnPutOld(t) ==
    /\ UNCHANGED chFrame
    /\ ~panic /\ ct[t].old # <<>> /\ ct[t].old \notin ct[t].held
    /\ ct[t].pc # "put_old"
    /\ put_whole(t, ct[t].old, "put_old")
    /\ UNCHANGED tbl_mutex

NextOwn ==
    \/ \E t \in Threads, partner \in PartnerIds,
          mode \in {IPC_COMMUNICATION_INT, IPC_COMMUNICATION_POLL},
          appointed \in AppointedSet : OwnGet(t, partner, mode, appointed)
    \/ \E t \in Threads, h \in PartnerIds \X Slots : OwnPut(t, h)
    \/ \E t \in Threads : OwnPutOld(t)

(***************************************************************************)
(* columbus_ipc_send_message.  Each sending thread owns one send channel   *)
(* (acquired before); the partner DSP acknowledges a channel by clearing   *)
(* its bit of the flag register.  A register of channel bits is kept as    *)
(* the set of the bits that are set: 1 << n is {n}, 0 is {}.               *)
(***************************************************************************)
\* the send channel of thread t: the threads share the RF table or not
SendChannelOf(t, same) ==
    IF same \/ t % 2 = 1 THEN <<IPC_PARTNER_RF_DSP, t - 1>>
    ELSE <<IPC_PARTNER_PLC_DSP, t - 1>>

\* message lengths and pinned pages a caller passes
SendLens == {0, 2000, 40000}
SendPages == {-1, 1}

IdleSend(chan) ==
    [pc |-> "idle", chan |-> chan, len |-> 0, page_arg |-> -1, page_num |-> -1,
     npages |-> 0, i |-> 0, sram |-> NULL, ipc_flag |-> {}, ret |-> 0,
     pre |-> <<AllFree, AllFree>>, dist |-> FALSE, wrote |-> FALSE,
     notified |-> FALSE, seen_clear |-> FALSE, acked |-> FALSE,
     lost |-> FALSE]

ZeroHdr == [comm |-> 0, addr |-> 0, data0 |-> 0, data1 |-> 0]

InitHw ==
    /\ a7to_flg = [p \in PartnerIds |-> {}]
    /\ a7to_hdr = [p \in PartnerIds |-> ZeroHdr]
    /\ toa7_sts = [p \in PartnerIds |-> {}]
    /\ sram_mem = [p \in Pages |-> 0]

\* the tables after each sending thread acquired its channel (poll mode)
InitSend ==
    /\ sram_mutex = 0
    /\ nsend = 0
    /\ \E same \in BOOLEAN :
          /\ st = [t \in Threads |-> IdleSend(SendChannelOf(t, same))]
          /\ ipc_channel = [p \in PartnerIds |-> [i \in Slots |->
                IF \E t \in Threads : SendChannelOf(t, same) = <<p, i>>
                THEN set_ipc_channel([ZeroChannel EXCEPT !.used = IPC_CHANNEL_USED],
                                     p, IPC_SEND_OPERATION, IPC_COMMUNICATION_POLL)
                ELSE ZeroChannel]]
    /\ tbl_mutex = [p \in PartnerIds |-> 0]
    /\ ct = [t \in Threads |-> IdleThread]

\* channel2num: the offset of the slot in its table
channel2num(channel) == channel[2]

\* the value ipc_flag has when the wait loop is entered: 1 << channel_num
initial_ipc_flag_zero(channel_num) == {}

initial_ipc_flag(channel_num) == {channel_num}

\* the error columbus_ipc_send_message returns when ipc_sram_alloc fails
enospc_positive == ENOSPC

send_enospc == -ENOSPC

\* st with thread t's record replaced; when the step changed the ownership
\* registers, every other thread inside a send is marked as disturbed
StUpdate(t, rec, changed) ==
    [u \in Threads |->
        IF u = t THEN rec
        ELSE IF changed /\ st[u].pc # "idle"
             THEN [st[u] EXCEPT !.dist = TRUE]
             ELSE st[u]]

SetRegs(regs) == srmsel0' = regs[1] /\ srmsel1' = regs[2]

\* entry: channel2num, the len == 0 return
SendCall(t, len, page_num) ==
    /\ UNCHANGED <<utVars, DEBUG, tbl_mutex, ct, recvVars, cuVars, mvVars>>
    /\ ~panic /\ st[t].pc = "idle"
    /\ nsend < MaxSends
    /\ nsend' = nsend + 1
    /\ st' = [st EXCEPT ![t] =
                 [IdleSend(st[t].chan) EXCEPT
                     !.pc = IF len = 0 THEN "done" ELSE "alloc_find",
                     !.len = len, !.page_arg = page_num, !.pre = Regs]]
    /\ UNCHANGED <<sramVars, hwVars, sram_mutex, ipc_channel, panic>>

\* ipc_sram_alloc up to mutex_lock: the argument checks and, for an
\* unpinned request, find_consecutive_free_sram_pages (outside the mutex)
SendAllocFind(t) ==
    /\ UNCHANGED sendFrame
    /\ ~panic /\ st[t].pc = "alloc_find"
    /\ LET addr == pagenum2pageaddr(st[t].page_arg)
           size == st[t].len
           npages == size2npages(size)
           f == IF sram_alloc_page(addr) = -1
                THEN find_consecutive_free_sram_pages(Regs, npages)
                ELSE [ret |-> 1, page_num |-> sram_alloc_page(addr)]
       IN  IF sram_alloc_reject(addr, size) \/ f.ret = 0
           THEN st' = [st EXCEPT ![t].pc = "done", ![t].sram = NULL,
                                 ![t].ret = send_enospc]
           ELSE st' = [st EXCEPT ![t].pc = "alloc_lock", ![t].npages = npages,
                                 ![t].page_num = f.page_num, ![t].i = 0]
    /\ UNCHANGED <<sramVars, hwVars, sram_mutex, ipc_channel, panic>>

SendAllocLock(t) ==
    /\ UNCHANGED sendFrame
    /\ ~panic /\ st[t].pc = "alloc_lock"
    /\ mutex_is_free(sram_mutex)
    /\ sram_mutex' = t
    /\ st' = [st EXCEPT ![t].pc = "alloc_grab"]
    /\ UNCHANGED <<sramVars, hwVars, ipc_channel, panic>>

\* one turn of the grab loop of try_to_grab_sram_pages
SendAllocGrab(t, race) ==
    /\ UNCHANGED sendFrame
    /\ ~panic /\ st[t].pc = "alloc_grab"
    /\ race # 0 => Cardinality(DspPages(Regs)) < MaxBusyPages
    /\ LET g == grab_one_sram_page(Regs, st[t].page_num + st[t].i, race)
           rec == IF g.ret = 0
                  THEN [st[t] EXCEPT !.pc = "alloc_unlock"]
                  ELSE [st[t] EXCEPT !.i = @ + 1,
                                     !.pc = IF st[t].i + 1 >= st[t].npages
                                            THEN "alloc_unlock" ELSE @]
           raced == race # 0 /\ g.regs # Regs
       IN  /\ SetRegs(g.regs)
           /\ st' = StUpdate(t, [rec EXCEPT !.dist = @ \/ raced,
                                            !.lost = @ \/ raced],
                              g.regs # Regs)
    /\ UNCHANGED <<hwVars, sram_mutex, ipc_channel, panic>>

\* mutex_unlock and the result of ipc_sram_alloc; on NULL the send
\* returns -ENOSPC
SendAllocUnlock(t) ==
    /\ UNCHANGED sendFrame
    /\ ~panic /\ st[t].pc = "alloc_unlock"
    /\ sram_mutex' = 0
    /\ IF st[t].i = st[t].npages
       THEN st' = [st EXCEPT ![t].pc = "copy",
                             ![t].sram = pagenum2pageaddr(st[t].page_num)]
       ELSE st' = [st EXCEPT ![t].pc = "done", ![t].sram = NULL,
                             ![t].ret = send_enospc]
    /\ UNCHANGED <<sramVars, hwVars, ipc_channel, panic>>

\* the send going on to the header without memset and memcpy
SendCopy_nocopy(t) ==
    /\ UNCHANGED sendFrame
    /\ ~panic /\ st[t].pc = "copy"
    /\ st' = [st EXCEPT ![t].pc = "hdr",
                        ![t].page_num = pageaddr2pagenum(st[t].sram)]
    /\ UNCHANGED <<sramVars, hwVars, sram_mutex, ipc_channel, panic>>

\* page_num = pageaddr2pagenum(sram); memset and memcpy of the message
SendCopy(t) ==
    /\ UNCHANGED sendFrame
    /\ ~panic /\ st[t].pc = "copy"
    /\ LET page_num == pageaddr2pagenum(st[t].sram)
       IN  /\ sram_mem' = [p \in Pages |->
                  IF p >= page_num /\ p < page_num + size2npages(st[t].len)
                  THEN st[t].len ELSE sram_mem[p]]
           /\ st' = [st EXCEPT ![t].pc = "hdr", ![t].page_num = page_num]
    /\ UNCHANGED <<sramVars, a7to_flg, a7to_hdr, toa7_sts, sram_mutex,
                   ipc_channel, panic>>

\* the virtual address of the page in place of the physical one
send_hdr_addr_virtual(page_num) ==
    columbus_ipc_sram + page_num * COLUMBUS_IPC_PAGE_SIZE

\* the value written to A7TORFIPCADDR / A7TOPLCIPCADDR
send_hdr_addr(page_num) ==
    columbus_ipc_sram_phy + page_num * COLUMBUS_IPC_PAGE_SIZE

\* the four header registers of the channel's partner
SendHdr(t) ==
    /\ UNCHANGED sendFrame
    /\ ~panic /\ st[t].pc = "hdr"
    /\ a7to_hdr' = [a7to_hdr EXCEPT ![st[t].chan[1]] =
          [comm |-> IPC_DATA_READ,
           addr |-> send_hdr_addr(st[t].page_num),
           data0 |-> st[t].len,
           data1 |-> st[t].page_num + IPC_END_MSG * 65536]]
    /\ st' = [st EXCEPT ![t].pc = "notify", ![t].wrote = TRUE]
    /\ UNCHANGED <<sramVars, a7to_flg, toa7_sts, sram_mem, sram_mutex,
                   ipc_channel, panic>>

\* notify_partner, and ipc_flag = 1 << channel_num
SendNotify(t) ==
    /\ UNCHANGED sendFrame
    /\ ~panic /\ st[t].pc = "notify"
    /\ a7to_flg' = [a7to_flg EXCEPT ![st[t].chan[1]] =
                       @ \cup {channel2num(st[t].chan)}]
    /\ st' = [st EXCEPT ![t].pc = "wait", ![t].notified = TRUE,
                        ![t].ipc_flag = initial_ipc_flag(channel2num(st[t].chan))]
    /\ UNCHANGED <<sramVars, a7to_hdr, toa7_sts, sram_mem, sram_mutex,
                   ipc_channel, panic>>

\* one turn of while (ipc_flag): ipc_flag = ioread32(flag register)
SendPoll(t) ==
    /\ UNCHANGED sendFrame
    /\ ~panic /\ st[t].pc = "wait"
    /\ st[t].ipc_flag # {}
    /\ st' = [st EXCEPT ![t].ipc_flag = a7to_flg[st[t].chan[1]],
                        ![t].seen_clear = (a7to_flg[st[t].chan[1]] = {})]
    /\ UNCHANGED <<sramVars, hwVars, sram_mutex, ipc_channel, panic>>

\* the loop ends when ipc_flag is 0
SendExit(t) ==
    /\ UNCHANGED sendFrame
    /\ ~panic /\ st[t].pc = "wait"
    /\ st[t].ipc_flag = {}
    /\ st' = [st EXCEPT ![t].pc = "ack"]
    /\ UNCHANGED <<sramVars, hwVars, sram_mutex, ipc_channel, panic>>

\* iowrite32(1 << channel_num, ack register): clears the inbound bit
SendAck(t) ==
    /\ UNCHANGED sendFrame
    /\ ~panic /\ st[t].pc = "ack"
    /\ toa7_sts' = [toa7_sts EXCEPT ![st[t].chan[1]] =
                       @ \ {channel2num(st[t].chan)}]
    /\ st' = [st EXCEPT ![t].pc = "free_lock", ![t].acked = TRUE]
    /\ UNCHANGED <<sramVars, a7to_flg, a7to_hdr, sram_mem, sram_mutex,
                   ipc_channel, panic>>

\* ipc_sram_free up to mutex_lock in free_sram_pages
SendFreeLock(t) ==
    /\ UNCHANGED sendFrame
    /\ ~panic /\ st[t].pc = "free_lock"
    /\ mutex_is_free(sram_mutex)
    /\ LET addr == pagenum2pageaddr(st[t].page_num)
           npages == free_size2npages(st[t].len)
       IN  IF DEBUG /\ sram_free_bug(addr, st[t].len)
           THEN panic' = TRUE /\ UNCHANGED <<st, sram_mutex>>
           ELSE /\ sram_mutex' = t
                /\ st' = [st EXCEPT ![t].i = 0, ![t].npages = npages,
                             ![t].page_num = (addr - columbus_ipc_sram) \div
                                             COLUMBUS_IPC_PAGE_SIZE,
                             ![t].pc = IF npages <= 0 THEN "free_unlock"
                                       ELSE "free_rel"]
                /\ UNCHANGED panic
    /\ UNCHANGED <<sramVars, hwVars, ipc_channel>>

\* one turn of the release loop of free_sram_pages
SendFreeRel(t) ==
    /\ UNCHANGED sendFrame
    /\ ~panic /\ st[t].pc = "free_rel"
    /\ LET r == release_one_sram_page(Regs, st[t].page_num + st[t].i, DEBUG)
           rec == [st[t] EXCEPT !.i = @ + 1,
                                !.pc = IF st[t].i + 1 >= st[t].npages
                                       THEN "free_unlock" ELSE @]
       IN  /\ SetRegs(r.regs)
           /\ panic' = r.bug
           /\ st' = StUpdate(t, rec, r.regs # Regs)
    /\ UNCHANGED <<hwVars, sram_mutex, ipc_channel>>

\* mutex_unlock, and return len
SendFreeUnlock(t) ==
    /\ UNCHANGED sendFrame
    /\ ~panic /\ st[t].pc = "free_unlock"
    /\ sram_mutex' = 0
    /\ st' = [st EXCEPT ![t].pc = "done", ![t].ret = st[t].len]
    /\ UNCHANGED <<sramVars, hwVars, ipc_channel, panic>>

\* the caller takes the result
SendReturn(t) ==
    /\ UNCHANGED sendFrame
    /\ ~panic /\ st[t].pc = "done"
    /\ st' = [st EXCEPT ![t] = IdleSend(st[t].chan)]
    /\ UNCHANGED <<sramVars, hwVars, sram_mutex, ipc_channel, panic>>

\* the partner acknowledges channel n: its write to the ack register
\* clears bit n of the flag register
DspAck(partner, n) ==
    /\ UNCHANGED sendFrame
    /\ ~panic /\ n \in a7to_flg[partner]
    /\ a7to_flg' = [a7to_flg EXCEPT ![partner] = @ \ {n}]
    /\ UNCHANGED <<sramVars, a7to_hdr, toa7_sts, sram_mem, sendVars,
                   ipc_channel, panic>>

\* a partner gives back a page it won
DspReleasePage(p) ==
    /\ UNCHANGED sendFrame
    /\ ~panic /\ get_sram_page_ownership(Regs, p) \in Partners
    /\ SetRegs(HwRequest(Regs, p, get_sram_page_ownership(Regs, p),
                         ownership_free))
    /\ st' = StUpdate(0, st[1], TRUE)
    /\ UNCHANGED <<hwVars, sram_mutex, ipc_channel, panic>>

SendStep(t) ==
    \/ SendAllocFind(t)
    \/ SendAllocLock(t)
    \/ \E race \in {0, ownership_rf} : SendAllocGrab(t, race)
    \/ SendAllocUnlock(t)
    \/ SendCopy(t)
    \/ SendHdr(t)
    \/ SendNotify(t)
    \/ SendPoll(t)
    \/ SendExit(t)
    \/ SendAck(t)
    \/ SendFreeLock(t)
    \/ SendFreeRel(t)
    \/ SendFreeUnlock(t)

NextSend ==
    \/ \E t \in Threads, len \in SendLens, page_num \in SendPages :
          SendCall(t, len, page_num)
    \/ \E t \in Threads : SendStep(t)
    \/ \E t \in Threads : SendReturn(t)
    \/ \E partner \in PartnerIds, n \in Slots : DspAck(partner, n)
    \/ \E p \in Pages : DspReleasePage(p)


(***************************************************************************)
(* columbus_ipc_receive_message and columbus_ipc_irq_handler.  One thread  *)
(* receives on one receive channel.  The partner DSP keeps the protocol:   *)
(* it writes the payload and the header, sets the channel's bit of the     *)
(* status register, and signals its next message only after the A7 has     *)
(* acknowledged (cleared) that bit.                                        *)
(***************************************************************************)
IrqNums == 0 .. (IPC_IRQ_CHANNEL_NUM + IPC_IRQ_CHANNEL_NUM - 1)

\* the channel the receiver uses when only one is looked at
RecvSlot == 0

\* the channels that have an interrupt line
RecvSlots == 0 .. (IPC_IRQ_CHANNEL_NUM - 1)

IdleRecv(chan) ==
    [pc |-> "idle", chan |-> chan, ipc_status |-> {}, command |-> 0,
     address |-> 0, data0 |-> 0, data1 |-> 0, msg_buf |-> 0, ret |-> 0,
     copied |-> FALSE, acked |-> FALSE, seen |-> FALSE, nsig |-> 0,
     alloc |-> FALSE]

InitRecvIdle ==
    /\ toa7_hdr = [p \in PartnerIds |-> ZeroHdr]
    /\ ipc_irq = [n \in IrqNums |-> [enabled |-> FALSE, done |-> 0]]
    /\ rv = IdleRecv(<<IPC_PARTNER_RF_DSP, RecvSlot>>)
    /\ hist = [signalled |-> <<>>, received |-> <<>>, enomem |-> 0]

\* after probe (every irq disabled) and columbus_ipc_get_channel for a
\* channel of either partner in either mode; the handle is then passed to
\* columbus_ipc_receive_message, which does not look at the direction the
\* channel was acquired for (columbus_ipc_message_read passes whatever
\* current_operation says)
InitRecvOn(slots, operations) ==
    /\ toa7_hdr = [p \in PartnerIds |-> ZeroHdr]
    /\ ipc_irq = [n \in IrqNums |-> [enabled |-> FALSE, done |-> 0]]
    /\ hist = [signalled |-> <<>>, received |-> <<>>, enomem |-> 0]
    /\ \E partner \in PartnerIds, slot \in slots, operation \in operations,
          mode \in {IPC_COMMUNICATION_INT, IPC_COMMUNICATION_POLL} :
          /\ rv = IdleRecv(<<partner, slot>>)
          /\ ipc_channel = [p \in PartnerIds |-> [i \in Slots |->
                IF <<p, i>> = <<partner, slot>>
                THEN set_ipc_channel([ZeroChannel EXCEPT !.used = IPC_CHANNEL_USED],
                                     p, operation, mode)
                ELSE ZeroChannel]]
    /\ tbl_mutex = [p \in PartnerIds |-> 0]
    /\ ct = [t \in Threads |-> IdleThread]

\* any channel that has an interrupt line, acquired for either direction
InitRecv ==
    InitRecvOn(RecvSlots, {IPC_SEND_OPERATION, IPC_RECEIVE_OPERATION})

\* channel 0 acquired for receiving
InitRecvOne == InitRecvOn({RecvSlot}, {IPC_RECEIVE_OPERATION})

\* the partner's view of the start of the shared RAM
sram_view(partner) ==
    IF partner = IPC_PARTNER_RF_DSP THEN COLUMBUS_SRAM_RF_VIEW
    ELSE COLUMBUS_SRAM_PLC_VIEW

\* is_valid_address with the end of the window included
is_valid_address_inclusive(partner, address) ==
    IF address >= sram_view(partner) /\
       address <= sram_view(partner) + COLUMBUS_IPC_SRAM_SIZE
    THEN 1 ELSE 0

is_valid_address(partner, address) ==
    IF address >= sram_view(partner) /\
       address < sram_view(partner) + COLUMBUS_IPC_SRAM_SIZE
    THEN 1 ELSE 0

\* the IPC_BUG inside is_valid_address: an address in the window that is
\* not page aligned
is_valid_address_bug(partner, address) ==
    /\ address >= sram_view(partner)
    /\ address < sram_view(partner) + COLUMBUS_IPC_SRAM_SIZE
    /\ address % COLUMBUS_IPC_PAGE_SIZE # 0

\* the end-of-message test on the low half of data1
is_end_msg_low(data1) == (data1 % 65536) = IPC_END_MSG

\* (data1 >> 16) == IPC_END_MSG
is_end_msg(data1) == (data1 \div 65536) = IPC_END_MSG

address_from_a7_view(partner, address) ==
    columbus_ipc_sram_phy + (address - sram_view(partner))

phy2vir(address) == columbus_ipc_sram + (address - columbus_ipc_sram_phy)

\* an interrupt-mode receive that forgets the offset of the PLC DSP's lines
IrqOf_nooffset(chan) == chan[2]

\* the interrupt line of a channel: 0-7 RF DSP, 8-15 PLC DSP
IrqOf(chan) ==
    chan[2] + (IF chan[1] = IPC_PARTNER_PLC_DSP THEN IPC_IRQ_CHANNEL_NUM ELSE 0)

RecvChannel == ipc_channel[rv.chan[1]][rv.chan[2]]

\* what an uninitialized buffer may hold
Garbage == 0 .. MaxMsgs

RecvCall ==
    /\ UNCHANGED recvFrame
    /\ ~panic /\ rv.pc = "idle"
    /\ rv' = [IdleRecv(rv.chan) EXCEPT !.pc = "ack"]
    /\ UNCHANGED <<sramVars, toa7_sts, sram_mem, ipc_channel, panic,
                   toa7_hdr, ipc_irq, hist>>

\* a receive that leaves the initial write to the ack register out
RecvAck_noclear ==
    /\ UNCHANGED recvFrame
    /\ ~panic /\ rv.pc = "ack"
    /\ rv' = [rv EXCEPT !.pc = IF RecvChannel.mode = IPC_COMMUNICATION_INT
                                THEN "init" ELSE "poll",
                        !.acked = TRUE, !.nsig = Len(hist.signalled)]
    /\ UNCHANGED <<sramVars, toa7_sts, sram_mem, ipc_channel, panic,
                   toa7_hdr, ipc_irq, hist>>

\* "Firstly, ARM need ack": the write clears the channel's status bit;
\* nsig remembers how many signals the partner had raised by then
RecvAck ==
    /\ UNCHANGED recvFrame
    /\ ~panic /\ rv.pc = "ack"
    /\ toa7_sts' = [toa7_sts EXCEPT ![rv.chan[1]] = @ \ {channel2num(rv.chan)}]
    /\ rv' = [rv EXCEPT !.pc = IF RecvChannel.mode = IPC_COMMUNICATION_INT
                                THEN "init" ELSE "poll",
                        !.acked = TRUE, !.nsig = Len(hist.signalled)]
    /\ UNCHANGED <<sramVars, sram_mem, ipc_channel, panic,
                   toa7_hdr, ipc_irq, hist>>

RecvInitCompletion ==
    /\ UNCHANGED recvFrame
    /\ ~panic /\ rv.pc = "init"
    /\ ipc_irq' = [ipc_irq EXCEPT ![IrqOf(rv.chan)].done = 0]
    /\ rv' = [rv EXCEPT !.pc = "enable"]
    /\ UNCHANGED <<sramVars, toa7_sts, sram_mem, ipc_channel, panic,
                   toa7_hdr, hist>>

RecvEnableIrq ==
    /\ UNCHANGED recvFrame
    /\ ~panic /\ rv.pc = "enable"
    /\ ipc_irq' = [ipc_irq EXCEPT ![IrqOf(rv.chan)].enabled = TRUE]
    /\ rv' = [rv EXCEPT !.pc = "wait"]
    /\ UNCHANGED <<sramVars, toa7_sts, sram_mem, ipc_channel, panic,
                   toa7_hdr, hist>>

RecvWaitForCompletion ==
    /\ UNCHANGED recvFrame
    /\ ~panic /\ rv.pc = "wait"
    /\ ipc_irq[IrqOf(rv.chan)].done > 0
    /\ ipc_irq' = [ipc_irq EXCEPT ![IrqOf(rv.chan)].done = @ - 1]
    /\ rv' = [rv EXCEPT !.pc = "disable", !.seen = TRUE]
    /\ UNCHANGED <<sramVars, toa7_sts, sram_mem, ipc_channel, panic,
                   toa7_hdr, hist>>

\* a receive that leaves disable_irq out
RecvDisableIrq_skip ==
    /\ UNCHANGED recvFrame
    /\ ~panic /\ rv.pc = "disable"
    /\ rv' = [rv EXCEPT !.pc = "read"]
    /\ UNCHANGED <<sramVars, toa7_sts, sram_mem, ipc_channel, panic,
                   toa7_hdr, ipc_irq, hist>>

RecvDisableIrq ==
    /\ UNCHANGED recvFrame
    /\ ~panic /\ rv.pc = "disable"
    /\ ipc_irq' = [ipc_irq EXCEPT ![IrqOf(rv.chan)].enabled = FALSE]
    /\ rv' = [rv EXCEPT !.pc = "read"]
    /\ UNCHANGED <<sramVars, toa7_sts, sram_mem, ipc_channel, panic,
                   toa7_hdr, hist>>

\* one turn of do { ipc_status = ioread32(STS) } while (bit is 0); in a
\* DEBUG build a mode that is not POLL is an IPC_BUG
RecvPoll ==
    /\ UNCHANGED recvFrame
    /\ ~panic /\ rv.pc = "poll"
    /\ IF DEBUG /\ RecvChannel.mode # IPC_COMMUNICATION_POLL
       THEN panic' = TRUE /\ UNCHANGED rv
       ELSE /\ rv' = [rv EXCEPT !.ipc_status = toa7_sts[rv.chan[1]],
                         !.seen = channel2num(rv.chan) \in toa7_sts[rv.chan[1]],
                         !.pc = IF channel2num(rv.chan) \in toa7_sts[rv.chan[1]]
                                THEN "read" ELSE "poll"]
            /\ UNCHANGED panic
    /\ UNCHANGED <<sramVars, toa7_sts, sram_mem, ipc_channel,
                   toa7_hdr, ipc_irq, hist>>

\* retrieve the message: the four header registers
RecvReadHdr ==
    /\ UNCHANGED recvFrame
    /\ ~panic /\ rv.pc = "read"
    /\ LET h == toa7_hdr[rv.chan[1]]
       IN  rv' = [rv EXCEPT !.command = h.comm, !.address = h.addr,
                            !.data0 = h.data0, !.data1 = h.data1,
                            !.pc = "copy"]
    /\ UNCHANGED <<sramVars, toa7_sts, sram_mem, ipc_channel, panic,
                   toa7_hdr, ipc_irq, hist>>

\* the command == IPC_DATA_READ block and the return; kmalloc_ok is the
\* outcome of kmalloc, garbage what uninitialized memory holds
RecvCopy(kmalloc_ok, garbage) ==
    /\ UNCHANGED recvFrame
    /\ ~panic /\ rv.pc = "copy"
    /\ IF rv.command = IPC_DATA_READ
       THEN IF DEBUG /\ (\/ is_valid_address_bug(rv.chan[1], rv.address)
                         \/ is_valid_address(rv.chan[1], rv.address) = 0
                         \/ rv.data0 > COLUMBUS_IPC_SRAM_SIZE)
            THEN panic' = TRUE /\ UNCHANGED <<rv, hist>>
            ELSE /\ UNCHANGED panic
                 /\ IF ~kmalloc_ok
                    THEN /\ hist.enomem = 0
                         /\ rv' = [rv EXCEPT !.pc = "done", !.ret = -ENOMEM]
                         /\ hist' = [hist EXCEPT !.enomem = @ + 1]
                    ELSE LET msg == phy2vir(address_from_a7_view(rv.chan[1],
                                                                 rv.address))
                             page == (msg - columbus_ipc_sram) \div
                                     COLUMBUS_IPC_PAGE_SIZE
                         IN  /\ rv' = [rv EXCEPT !.pc = "done", !.ret = rv.data0,
                                  !.alloc = TRUE,
                                  !.copied = is_end_msg(rv.data1),
                                  !.msg_buf =
                                      IF is_end_msg(rv.data1) /\ page \in Pages
                                      THEN sram_mem[page] ELSE garbage]
                             /\ UNCHANGED hist
       ELSE /\ rv' = [rv EXCEPT !.pc = "done", !.ret = rv.data0,
                                !.msg_buf = garbage]
            /\ UNCHANGED <<panic, hist>>
    /\ UNCHANGED <<sramVars, toa7_sts, sram_mem, ipc_channel,
                   toa7_hdr, ipc_irq>>

\* the caller takes *message and the result
RecvReturn ==
    /\ UNCHANGED recvFrame
    /\ ~panic /\ rv.pc = "done"
    /\ hist' = IF rv.ret >= 0
               THEN [hist EXCEPT !.received = Append(@, rv.msg_buf)]
               ELSE hist
    /\ rv' = IdleRecv(rv.chan)
    /\ UNCHANGED <<sramVars, toa7_sts, sram_mem, ipc_channel, panic,
                   toa7_hdr, ipc_irq>>

\* "0-7 is for RF DSP, 8 - 15 is for PLC DSP": the partner and the channel
\* number the handler derives from int_channel_num
IrqPartner(n) ==
    IF n < IPC_IRQ_CHANNEL_NUM THEN IPC_PARTNER_RF_DSP ELSE IPC_PARTNER_PLC_DSP

IrqChannelNum(n) ==
    IF n < IPC_IRQ_CHANNEL_NUM THEN n ELSE n - IPC_IRQ_CHANNEL_NUM

\* columbus_ipc_irq_handler for line n, raised while the line is enabled
\* and the channel's status bit is set.  The two branches on
\* channel->operation only log; complete(done) and the write that clears
\* the interrupt follow them for either direction.
columbus_ipc_irq_handler(n) ==
    /\ UNCHANGED recvFrame
    /\ ~panic
    /\ LET partner == IrqPartner(n)
           channel_num == IrqChannelNum(n)
           channel == ipc_channel[partner][channel_num]
       IN  /\ ipc_irq[n].enabled
           /\ channel_num \in toa7_sts[partner]
           /\ IF DEBUG /\ (\/ channel.partner # partner
                           \/ channel.used # IPC_CHANNEL_USED
                           \/ channel.mode # IPC_COMMUNICATION_INT
                           \/ channel.operation \notin
                                 {IPC_SEND_OPERATION, IPC_RECEIVE_OPERATION})
              THEN panic' = TRUE /\ UNCHANGED <<ipc_irq, toa7_sts>>
              ELSE /\ ipc_irq' = [ipc_irq EXCEPT ![n].done = @ + 1]
                   /\ toa7_sts' = [toa7_sts EXCEPT ![partner] = @ \ {channel_num}]
                   /\ UNCHANGED panic
    /\ UNCHANGED <<sramVars, sram_mem, ipc_channel, toa7_hdr, rv, hist>>

\* the owner code of a partner in the ownership registers
OwnerOf(partner) ==
    IF partner = IPC_PARTNER_RF_DSP THEN ownership_rf ELSE ownership_plc

\* the partner signals its next message m on the receive channel, once its
\* previous signal has been acknowledged: it takes page m - 1, writes the
\* payload and the header (command, address, length, marker end in the upper
\* half of data1), and sets the status bit
DspSignal(comm, address, end, len) ==
    /\ ~panic
    /\ Len(hist.signalled) < MaxMsgs
    /\ channel2num(rv.chan) \notin toa7_sts[rv.chan[1]]
    /\ LET m == Len(hist.signalled) + 1
           page == m - 1
           partner == rv.chan[1]
       IN  /\ SetRegs(HwRequest(Regs, page, OwnerOf(partner), OwnerOf(partner)))
           /\ sram_mem' = [sram_mem EXCEPT ![page] = m]
           /\ toa7_hdr' = [toa7_hdr EXCEPT ![partner] =
                 [comm |-> comm,
                  addr |-> address,
                  data0 |-> len,
                  data1 |-> page + end * 65536]]
           /\ toa7_sts' = [toa7_sts EXCEPT ![partner] =
                              @ \cup {channel2num(rv.chan)}]
           /\ hist' = [hist EXCEPT !.signalled = Append(@, m)]
    /\ UNCHANGED <<ipc_channel, panic, ipc_irq, rv>>

\* the address of the next message in the partner's view
DspMsgAddr ==
    sram_view(rv.chan[1]) + Len(hist.signalled) * COLUMBUS_IPC_PAGE_SIZE

\* the length of the next message
DspMsgLen == 100 * (Len(hist.signalled) + 1)

\* a partner that keeps the protocol
DspSend ==
    /\ UNCHANGED recvFrame
    /\ DspSignal(IPC_DATA_READ, DspMsgAddr, IPC_END_MSG, DspMsgLen)

\* headers a faulty partner may write: an address below or just past its
\* window, in the other partner's window, or not page aligned, the last
\* page of its window with a length of two pages, and a command that is
\* not IPC_DATA_READ
AddrKinds == {"right", "unaligned", "below", "past", "other", "last",
              "command"}

OddAddr(kind) ==
    CASE kind \in {"right", "command"} -> DspMsgAddr
      [] kind = "unaligned" -> DspMsgAddr + 4
      [] kind = "below" -> sram_view(rv.chan[1]) - COLUMBUS_IPC_PAGE_SIZE
      [] kind = "past" -> sram_view(rv.chan[1]) + COLUMBUS_IPC_SRAM_SIZE
      [] kind = "last" -> sram_view(rv.chan[1]) + COLUMBUS_IPC_SRAM_SIZE
                              - COLUMBUS_IPC_PAGE_SIZE
      [] OTHER -> sram_view(1 - rv.chan[1])

OddLen(kind) == IF kind = "last" THEN 2000 ELSE DspMsgLen

OddComm(kind) == IF kind = "command" THEN 0 ELSE IPC_DATA_READ

\* markers a partner may put in the upper half of data1
EndMarks == {0, IPC_END_MSG, 2}

\* a partner that does not keep the header format
DspSendOdd(kind, end) ==
    /\ UNCHANGED recvFrame
    /\ <<kind, end>> # <<"right", IPC_END_MSG>>
    /\ DspSignal(OddComm(kind), OddAddr(kind), end, OddLen(kind))

NextRecv ==
    \/ RecvCall
    \/ RecvAck
    \/ RecvInitCompletion
    \/ RecvEnableIrq
    \/ RecvWaitForCompletion
    \/ RecvDisableIrq
    \/ RecvPoll
    \/ RecvReadHdr
    \/ \E kmalloc_ok \in BOOLEAN, garbage \in Garbage :
          RecvCopy(kmalloc_ok, garbage)
    \/ RecvReturn
    \/ \E n \in IrqNums : columbus_ipc_irq_handler(n)
    \/ DspSend

NextRecvAny ==
    \/ NextRecv
    \/ \E kind \in AddrKinds, end \in EndMarks : DspSendOdd(kind, end)


(***************************************************************************)
(* unittest_channel_operation: one caller makes whole get_channel and      *)
(* put_channel calls, one after the other.  It fills one partner's table   *)
(* in one mode, and now and then makes another call: a get in any mode,    *)
(* with or without an appointed index, or a put.                           *)
(***************************************************************************)
NoChCall == [op |-> "none", partner |-> 0, mode |-> 0, appointed |-> 0,
             ret |-> 0, pre |-> <<>>]

\* indexes the caller appoints, and handles it puts
CuAppointed == {COLUMBUS_IPC_INVALID, 0, 8}
CuHandles == {<<IPC_PARTNER_RF_DSP, 0>>, <<IPC_PARTNER_RF_DSP, 8>>,
              <<IPC_PARTNER_PLC_DSP, 0>>}

InitCuIdle ==
    cu = [fill |-> <<IPC_PARTNER_RF_DSP, IPC_COMMUNICATION_POLL>>,
          consec |-> 0, nprobe |-> 0, nput |-> 0, last |-> NoChCall]

\* the unit test fills the RF table, in interrupt mode and in poll mode
InitCu ==
    \E mode \in {IPC_COMMUNICATION_INT, IPC_COMMUNICATION_POLL} :
        cu = [fill |-> <<IPC_PARTNER_RF_DSP, mode>>, consec |-> 0,
              nprobe |-> 0, nput |-> 0, last |-> NoChCall]

\* the table after get_free_channel marked slot i and set_ipc_channel
\* stamped it
channel_taken(tbl, partner, i, operation, mode) ==
    [tbl EXCEPT ![partner][i] =
        set_ipc_channel([@ EXCEPT !.used = IPC_CHANNEL_USED],
                        partner, operation, mode)]

\* a whole columbus_ipc_get_channel call of the only caller
columbus_ipc_get_channel(partner, operation, mode, appointed_channel, probe) ==
    /\ ~panic
    /\ probe => cu.nprobe < MaxProbes
    /\ LET max_channel == get_max_channel(operation, mode)
           i == get_free_channel(ipc_channel[get_lock(partner)], max_channel,
                                 appointed_channel)
           call == [op |-> "get", partner |-> partner, mode |-> mode,
                    appointed |-> appointed_channel, ret |-> i,
                    pre |-> ipc_channel]
           consec == IF partner # cu.fill[1] THEN cu.consec
                     ELSE IF i = -1 THEN cu.consec
                     ELSE IF appointed_channel # COLUMBUS_IPC_INVALID
                             \/ cu.consec = -1
                          THEN -1
                          ELSE cu.consec + 1
       IN  IF DEBUG /\ appointed_channel # COLUMBUS_IPC_INVALID
                    /\ appointed_channel >= max_channel
           THEN /\ panic' = TRUE
                /\ cu' = [cu EXCEPT !.last = [call EXCEPT !.ret = -1]]
                /\ UNCHANGED ipc_channel
           ELSE /\ UNCHANGED panic
                /\ ipc_channel' = IF i = -1 THEN ipc_channel
                                  ELSE channel_taken(ipc_channel, partner, i,
                                                     operation, mode)
                /\ cu' = [cu EXCEPT !.last = call, !.consec = consec,
                                    !.nprobe = IF probe THEN @ + 1 ELSE @]

\* the next get of the fill: no appointed index
CuFill ==
    /\ UNCHANGED cuFrame
    /\ columbus_ipc_get_channel(cu.fill[1], IPC_RECEIVE_OPERATION, cu.fill[2],
                                COLUMBUS_IPC_INVALID, FALSE)

\* any other get
CuProbe(partner, mode, appointed) ==
    /\ UNCHANGED cuFrame
    /\ columbus_ipc_get_channel(partner,
                                IF appointed = COLUMBUS_IPC_INVALID
                                THEN IPC_RECEIVE_OPERATION
                                ELSE IPC_SEND_OPERATION,
                                mode, appointed, TRUE)

\* a whole columbus_ipc_put_channel call on handle h, live or stale
columbus_ipc_put_channel(h) ==
    /\ ~panic
    /\ cu.nput < MaxPuts
    /\ LET c == ipc_channel[h[1]][h[2]]
           call == [op |-> "put", partner |-> h[1], mode |-> c.mode,
                    appointed |-> h[2], ret |-> 0, pre |-> ipc_channel]
       IN  /\ cu' = [cu EXCEPT !.last = call, !.nput = @ + 1,
                        !.consec = IF h[1] = cu.fill[1] THEN -1 ELSE @]
           /\ IF DEBUG /\ put_channel_bug(c)
              THEN panic' = TRUE /\ UNCHANGED ipc_channel
              ELSE /\ UNCHANGED panic
                   /\ ipc_channel' = [ipc_channel EXCEPT ![h[1]][h[2]] =
                                         clear_ipc_channel(@)]

\* a put of handle h
CuPut(h) ==
    /\ UNCHANGED cuFrame
    /\ columbus_ipc_put_channel(h)

NextCu ==
    \/ CuFill
    \/ \E partner \in PartnerIds,
          mode \in {IPC_COMMUNICATION_INT, IPC_COMMUNICATION_POLL},
          appointed \in CuAppointed : CuProbe(partner, mode, appointed)
    \/ \E h \in CuHandles : CuPut(h)


(***************************************************************************)
(* The Marvell IPC driver (marvell-ipc-driver/ipc_driver.c): the receive   *)
(* path.  A device is named by its place in ipc_devices[], counted from 1, *)
(* so that NULL is no device.  A command is named by the value the remote  *)
(* put in its command byte.                                                *)
(***************************************************************************)
ACK_MSG_PROCESSED == 3
ACK_MSG_DISCARDED == 2

\* IPC devices the device tree declares
NumDevices == 2
\* commands the remote sides send in all
MaxCmds == 2
\* times a work item that was re-initialised while queued may still run
MaxRuns == 2

Devs == 1 .. NumDevices
MvPorts == {1, 2}
Cmds == 1 .. MaxCmds
NoPort == <<>>

NoRx == [cmdbit |-> FALSE, port |-> 0, cmd |-> 0]
IsrIdle == [pc |-> "idle", port |-> 0, cmd |-> 0]
\* memset(&recv_data, 0, sizeof(recv_data))
recv_data_zero == [device |-> NULL, port_number |-> 0, cmd |-> 0]
WorkIdle == [pc |-> "idle", port |-> NoPort, ack_type |-> ACK_MSG_DISCARDED,
             freed |-> FALSE]

\* the values of ipc_error_type_t
e_IPC_SUCCESS == 0
e_IPC_ERROR == 1
e_IPC_NO_LISTENER == 2

\* the threads that call ipc_attach, ipc_detach and ipc_send
NumApiThreads == 2
ApiThreads == 1 .. NumApiThreads

\* IPC_WDR_0, IPC_WDR_1 and the command bits of IPC_ISRW: the command the
\* remote side has not acknowledged yet, by the thread that wrote it
NoCmd == [by |-> 0, port |-> 0]
NoApiCall == [op |-> "none", ret |-> 0, wrote |-> FALSE, ack_of |-> 0,
              given |-> 0, attached |-> FALSE]
\* a caller: the handle it holds is the ipc_port_config_t it was given,
\* named by device, port number and the thread whose kmalloc made it
ApiIdle == [pc |-> "idle", device |-> NULL, port_number |-> 0,
            handle |-> NoPort, last |-> NoApiCall]

\* the driver after ipc_driver_init and the probe of every device
InitMv ==
    mv = [open_ports |-> [d \in Devs |-> {}],
          open_count |-> [d \in Devs |-> 0],
          irq_on |-> [d \in Devs |-> FALSE],
          rx |-> [d \in Devs |-> NoRx],
          ackbits |-> [d \in Devs |-> 0],
          ack_type |-> [d \in Devs |-> 0],
          tx_done_sem |-> [d \in Devs |-> 0],
          isr |-> [d \in Devs |-> IsrIdle],
          recv_data |-> recv_data_zero,
          queued |-> 0,
          reinit |-> FALSE,
          w |-> WorkIdle,
          oops |-> FALSE,
          out |-> [d \in Devs |-> 0],
          nsent |-> 0,
          origin |-> [i \in Cmds |-> NoPort],
          stable |-> [i \in Cmds |-> "none"],
          taken |-> [i \in Cmds |-> FALSE],
          ncb |-> [i \in 0 .. MaxCmds |-> 0],
          incb |-> 0,
          result |-> [i \in Cmds |-> 0],
          list |-> [d \in Devs |-> <<>>],
          tx_ready_sem |-> [d \in Devs |-> 1],
          wdr |-> [d \in Devs |-> NoCmd],
          ackbits_of |-> [d \in Devs |-> 0],
          ack_of |-> [d \in Devs |-> 0],
          given |-> [t \in ApiThreads |-> 0],
          api |-> [t \in ApiThreads |-> ApiIdle]]

device_is_valid(device) == device # NULL /\ device \in Devs

find_device_port(device, port_number) ==
    IF device_is_valid(device) /\ port_number \in mv.open_ports[device]
    THEN <<device, port_number>>
    ELSE NoPort

\* the commands in flight on a port see its listener change
ListenerChanged(d, p) ==
    [i \in Cmds |-> IF mv.origin[i] = <<d, p>> /\ mv.result[i] = 0
                    THEN "changed" ELSE mv.stable[i]]

\* ipc_attach for a port that is not attached yet
MvAttach(d, p) ==
    /\ UNCHANGED mvFrame
    /\ ~mv.oops
    /\ find_device_port(d, p) = NoPort
    /\ mv' = [mv EXCEPT !.open_ports[d] = @ \cup {p},
                        !.irq_on[d] = IF mv.open_count[d] = 0 THEN TRUE ELSE @,
                        !.open_count[d] = @ + 1,
                        !.stable = ListenerChanged(d, p)]

\* ipc_detach of an attached port; free_irq waits for a running handler
MvDetach(d, p) ==
    /\ UNCHANGED mvFrame
    /\ ~mv.oops
    /\ p \in mv.open_ports[d]
    /\ mv.open_count[d] = 1 => mv.isr[d].pc = "idle"
    /\ mv' = [mv EXCEPT !.open_ports[d] = @ \ {p},
                        !.irq_on[d] = IF mv.open_count[d] = 1 THEN FALSE ELSE @,
                        !.open_count[d] = @ - 1,
                        !.w.freed = @ \/ (mv.w.port = <<d, p>>
                                          /\ mv.w.pc \in {"valid", "callback"}),
                        !.stable = ListenerChanged(d, p)]

\* the remote side of device d sends a command for port p and then waits
\* for its acknowledgment, as ipc_send does
MvRemoteSend(d, p) ==
    /\ UNCHANGED mvFrame
    /\ mv.nsent < MaxCmds
    /\ mv.out[d] = 0
    /\ ~mv.rx[d].cmdbit
    /\ LET id == mv.nsent + 1 IN
       mv' = [mv EXCEPT !.nsent = id,
                        !.out[d] = id,
                        !.rx[d] = [cmdbit |-> TRUE, port |-> p, cmd |-> id],
                        !.origin[id] = <<d, p>>,
                        !.stable[id] = IF p \in mv.open_ports[d]
                                       THEN "listener" ELSE "nolistener"]

\* irq_handler up to INIT_WORK: the acknowledgment branch, the reads of the
\* data registers and the memset of the one static recv_data
MvIrqEnter(d) ==
    /\ UNCHANGED mvFrame
    /\ ~mv.oops
    /\ mv.irq_on[d]
    /\ mv.isr[d].pc = "idle"
    /\ mv.rx[d].cmdbit \/ mv.ackbits[d] # 0
    /\ LET acked == mv.ackbits[d] # 0
           cmd == mv.rx[d].cmdbit
       IN mv' = [mv EXCEPT
            !.ack_type[d] = IF acked THEN mv.ackbits[d] ELSE @,
            !.ack_of[d] = IF acked THEN mv.ackbits_of[d] ELSE @,
            !.tx_done_sem[d] = IF acked THEN @ + 1 ELSE @,
            !.ackbits[d] = 0,
            !.isr[d] = IF cmd THEN [pc |-> "fill", port |-> mv.rx[d].port,
                                    cmd |-> mv.rx[d].cmd]
                       ELSE @,
            !.recv_data = IF cmd THEN recv_data_zero ELSE @,
            !.reinit = IF cmd THEN @ \/ mv.queued > 0 ELSE @,
            !.taken = IF cmd THEN [@ EXCEPT ![mv.rx[d].cmd] = TRUE] ELSE @]

\* queue_work of a work item that INIT_WORK reset while it stood on the
\* worklist: the item runs once, or again, or the list walk faults
requeue_runs == 1 .. MaxRuns

\* irq_handler from the fill of recv_data to queue_work
MvIrqQueue(d) ==
    /\ UNCHANGED mvFrame
    /\ ~mv.oops
    /\ mv.isr[d].pc = "fill"
    /\ \E n \in requeue_runs, fault \in BOOLEAN :
         /\ ~mv.reinit => (n = 1 /\ ~fault)
         /\ mv' = [mv EXCEPT
              !.recv_data = [device |-> d, port_number |-> mv.isr[d].port,
                             cmd |-> mv.isr[d].cmd],
              !.rx[d] = NoRx,
              !.isr[d] = IsrIdle,
              !.queued = n,
              !.reinit = FALSE,
              !.oops = fault]

\* non_isr_recv from its entry to the return of find_device_port
MvWorkFind ==
    /\ UNCHANGED mvFrame
    /\ ~mv.oops
    /\ mv.queued > 0
    /\ mv.w.pc = "idle"
    /\ LET device == mv.recv_data.device IN
       mv' = [mv EXCEPT
            !.queued = @ - 1,
            !.w = [pc |-> IF device_is_valid(device) THEN "valid" ELSE "ack",
                   port |-> find_device_port(device, mv.recv_data.port_number),
                   ack_type |-> ACK_MSG_DISCARDED,
                   freed |-> FALSE]]

\* port_is_valid(port) and, for a valid port, the call of recv_callback with
\* data->cmd; a port that ipc_detach freed meanwhile is read after free
MvPortValid ==
    /\ UNCHANGED mvFrame
    /\ ~mv.oops
    /\ mv.w.pc = "valid"
    /\ \E valid \in BOOLEAN, fault \in BOOLEAN :
         /\ mv.w.port = NoPort => (~valid /\ ~fault)
         /\ (mv.w.port # NoPort /\ ~mv.w.freed) => (valid /\ ~fault)
         /\ fault => ~valid
         /\ LET cmd == mv.recv_data.cmd IN
            mv' = [mv EXCEPT
              !.oops = fault,
              !.w.ack_type = IF valid THEN ACK_MSG_PROCESSED
                                      ELSE ACK_MSG_DISCARDED,
              !.w.pc = IF valid THEN "callback" ELSE "ack",
              !.ncb[cmd] = IF valid THEN @ + 1 ELSE @,
              !.incb = IF valid THEN cmd ELSE @]

\* recv_callback returns
MvCallbackReturn ==
    /\ UNCHANGED mvFrame
    /\ ~mv.oops
    /\ mv.w.pc = "callback"
    /\ mv' = [mv EXCEPT !.w.pc = "ack", !.incb = 0]

\* iowrite32(ack_type << IIR_ACK_SHIFT, &data->device->regs->IPC_ISRW): the
\* remote side of data->device takes it as the answer to its command
MvAck ==
    /\ UNCHANGED mvFrame
    /\ ~mv.oops
    /\ mv.w.pc = "ack"
    /\ LET device == mv.recv_data.device IN
       IF device = NULL
       THEN mv' = [mv EXCEPT !.oops = TRUE]
       ELSE mv' = [mv EXCEPT
              !.w = WorkIdle,
              !.result = IF mv.out[device] # 0
                         THEN [@ EXCEPT ![mv.out[device]] = mv.w.ack_type]
                         ELSE @,
              !.out[device] = 0]

NextMrvl ==
    \/ \E d \in Devs, p \in MvPorts : MvAttach(d, p)
    \/ \E d \in Devs, p \in MvPorts : MvDetach(d, p)
    \/ \E d \in Devs, p \in MvPorts : MvRemoteSend(d, p)
    \/ \E d \in Devs : MvIrqEnter(d)
    \/ \E d \in Devs : MvIrqQueue(d)
    \/ MvWorkFind
    \/ MvPortValid
    \/ MvCallbackReturn
    \/ MvAck

(***************************************************************************)
(* The Marvell IPC driver: ipc_attach, ipc_detach and ipc_send called by   *)
(* threads.  device->open_ports is the list mv.list[d] of the port         *)
(* structures, mv.open_ports[d] the port numbers in it.  find_device_port  *)
(* and the down(&list_sem) .. up(&list_sem) blocks are one step each.      *)
(***************************************************************************)
\* device indexes a caller passes: those of the devices and one past them
ApiDevIdx == 1 .. (NumDevices + 1)

\* the port structure is in the list (it has not been kfree()d)
PortLive(h) == \E i \in 1 .. Len(mv.list[h[1]]) : mv.list[h[1]][i] = h

\* the place of the first entry of lst with port number p, 0 if none
FirstWith(lst, port_number) ==
    IF \E i \in 1 .. Len(lst) : lst[i][2] = port_number
    THEN CHOOSE i \in 1 .. Len(lst) :
            /\ lst[i][2] = port_number
            /\ \A k \in 1 .. (i - 1) : lst[k][2] # port_number
    ELSE 0

\* list_del of entry i
ListDel(lst, i) == [k \in 1 .. (Len(lst) - 1) |-> IF k < i THEN lst[k] ELSE lst[k + 1]]

PortNumbers(lst) == {lst[i][2] : i \in 1 .. Len(lst)}

\* down() returns at once whatever the count
sem_never_blocks(count) == TRUE

\* down() returns only when the count is positive
sem_is_up(count) == count > 0

\* ipc_attach: the check of device_index
ApiAttachCall(t, device_index, port_number) ==
    /\ UNCHANGED mvFrame
    /\ ~mv.oops
    /\ mv.api[t].pc = "idle" /\ mv.api[t].handle = NoPort
    /\ mv' = IF device_index \notin Devs
             THEN [mv EXCEPT !.api[t].last =
                      [NoApiCall EXCEPT !.op = "attach", !.ret = NULL]]
             ELSE [mv EXCEPT !.api[t] =
                      [@ EXCEPT !.pc = "att_find", !.device = device_index,
                                !.port_number = port_number,
                                !.last = NoApiCall]]

\* ipc_attach: find_device_port, which takes and gives list_sem itself
ApiAttachFind(t) ==
    /\ UNCHANGED mvFrame
    /\ ~mv.oops
    /\ mv.api[t].pc = "att_find"
    /\ mv' = IF find_device_port(mv.api[t].device, mv.api[t].port_number)
                 # NoPort
             THEN [mv EXCEPT !.api[t] =
                      [ApiIdle EXCEPT !.last = [NoApiCall EXCEPT !.op = "attach",
                                                                 !.ret = NULL]]]
             ELSE [mv EXCEPT !.api[t].pc = "att_add"]

\* ipc_attach from down(&list_sem) to its return; kmalloc_ok is the
\* outcome of kmalloc
ApiAttachAdd(t, kmalloc_ok) ==
    /\ UNCHANGED mvFrame
    /\ ~mv.oops
    /\ mv.api[t].pc = "att_add"
    /\ LET d == mv.api[t].device
           port == <<d, mv.api[t].port_number, t>>
       IN  mv' = IF ~kmalloc_ok
                 THEN [mv EXCEPT !.api[t] =
                          [ApiIdle EXCEPT
                              !.last = [NoApiCall EXCEPT !.op = "attach",
                                                         !.ret = NULL]]]
                 ELSE [mv EXCEPT
                          !.list[d] = Append(@, port),
                          !.open_ports[d] = @ \cup {port[2]},
                          !.irq_on[d] = IF mv.open_count[d] = 0 THEN TRUE ELSE @,
                          !.open_count[d] = @ + 1,
                          !.api[t] =
                             [ApiIdle EXCEPT !.handle = port,
                                 !.last = [NoApiCall EXCEPT !.op = "attach",
                                     !.ret = 1,
                                     !.attached = port[2] \in mv.open_ports[d]]]]

\* a whole ipc_detach of the handle the caller holds.  When the structure
\* has been freed port_is_valid reads freed memory: it still reads as
\* before (intact) or the kernel faults.  free_irq waits for a running
\* handler.
ApiDetach(t, intact) ==
    /\ UNCHANGED mvFrame
    /\ ~mv.oops
    /\ mv.api[t].pc = "idle" /\ mv.api[t].handle # NoPort
    /\ PortLive(mv.api[t].handle) => intact
    /\ LET port == mv.api[t].handle
           d == port[1]
           i == FirstWith(mv.list[d], port[2])
       IN  /\ (i # 0 /\ mv.open_count[d] = 1) => mv.isr[d].pc = "idle"
           /\ mv' =
               IF ~intact THEN [mv EXCEPT !.oops = TRUE]
               ELSE IF i = 0
               THEN [mv EXCEPT !.api[t] =
                        [@ EXCEPT !.handle = NoPort,
                                  !.last = [NoApiCall EXCEPT !.op = "detach",
                                                      !.ret = e_IPC_ERROR]]]
               ELSE [mv EXCEPT
                        !.list[d] = ListDel(@, i),
                        !.open_ports[d] = PortNumbers(ListDel(mv.list[d], i)),
                        !.open_count[d] = @ - 1,
                        !.irq_on[d] = IF mv.open_count[d] = 1 THEN FALSE ELSE @,
                        !.api[t] =
                           [@ EXCEPT !.handle = NoPort,
                                     !.last = [NoApiCall EXCEPT !.op = "detach",
                                                      !.ret = e_IPC_SUCCESS]]]

\* ipc_send: port_is_valid, with the handle the caller holds or NULL
ApiSendCall(t, intact) ==
    /\ UNCHANGED mvFrame
    /\ ~mv.oops
    /\ mv.api[t].pc = "idle"
    /\ (mv.api[t].handle = NoPort \/ PortLive(mv.api[t].handle)) => intact
    /\ mv' = IF mv.api[t].handle = NoPort
             THEN [mv EXCEPT !.api[t].last =
                      [NoApiCall EXCEPT !.op = "send", !.ret = e_IPC_ERROR]]
             ELSE IF ~intact THEN [mv EXCEPT !.oops = TRUE]
             ELSE [mv EXCEPT !.api[t] =
                      [@ EXCEPT !.pc = "tx_ready", !.device = mv.api[t].handle[1],
                                !.last = NoApiCall]]

\* down(&device->tx_ready_sem)
ApiSendReady(t) ==
    /\ UNCHANGED mvFrame
    /\ ~mv.oops
    /\ mv.api[t].pc = "tx_ready"
    /\ sem_is_up(mv.tx_ready_sem[mv.api[t].device])
    /\ mv' = [mv EXCEPT !.tx_ready_sem[mv.api[t].device] = @ - 1,
                        !.api[t].pc = "tx_write"]

\* the writes of IPC_WDR_0, IPC_WDR_1 and IPC_ISRW; port_number is what
\* port->port_number reads, anything once the structure has been freed
ApiSendWrite(t, port_number) ==
    /\ UNCHANGED mvFrame
    /\ ~mv.oops
    /\ mv.api[t].pc = "tx_write"
    /\ PortLive(mv.api[t].handle) => port_number = mv.api[t].handle[2]
    /\ mv' = [mv EXCEPT !.wdr[mv.api[t].device] =
                            [by |-> t, port |-> port_number],
                        !.given[t] = 0,
                        !.api[t].pc = "tx_done",
                        !.api[t].last.wrote = TRUE]

\* the remote side acknowledges the command it was sent
ApiRemoteAck(d, ack_type) ==
    /\ UNCHANGED mvFrame
    /\ ~mv.oops
    /\ mv.wdr[d] # NoCmd
    /\ mv.ackbits[d] = 0
    /\ mv' = [mv EXCEPT !.wdr[d] = NoCmd,
                        !.ackbits[d] = ack_type,
                        !.ackbits_of[d] = mv.wdr[d].by,
                        !.given[mv.wdr[d].by] = ack_type]

\* down(&device->tx_done_sem)
ApiSendDone(t) ==
    /\ UNCHANGED mvFrame
    /\ ~mv.oops
    /\ mv.api[t].pc = "tx_done"
    /\ sem_is_up(mv.tx_done_sem[mv.api[t].device])
    /\ mv' = [mv EXCEPT !.tx_done_sem[mv.api[t].device] = @ - 1,
                        !.api[t].pc = "tx_result"]

\* the result from device->ack_type, up(&device->tx_ready_sem), return
ApiSendResult(t) ==
    /\ UNCHANGED mvFrame
    /\ ~mv.oops
    /\ mv.api[t].pc = "tx_result"
    /\ LET d == mv.api[t].device
           result == IF mv.ack_type[d] = ACK_MSG_PROCESSED THEN e_IPC_SUCCESS
                     ELSE IF mv.ack_type[d] = ACK_MSG_DISCARDED
                     THEN e_IPC_NO_LISTENER
                     ELSE e_IPC_ERROR
       IN  mv' = [mv EXCEPT !.tx_ready_sem[d] = @ + 1,
                            !.given[t] = 0,
                            !.api[t] =
                               [@ EXCEPT !.pc = "idle", !.device = NULL,
                                   !.last = [NoApiCall EXCEPT !.op = "send",
                                       !.ret = result, !.wrote = TRUE,
                                       !.ack_of = mv.ack_of[d],
                                       !.given = mv.given[t]]]]

\* the values of the two acknowledgment bits of IPC_IIR
AckTypes == 1 .. 3

NextApi ==
    \/ \E t \in ApiThreads, device_index \in ApiDevIdx, port_number \in MvPorts :
          ApiAttachCall(t, device_index, port_number)
    \/ \E t \in ApiThreads : ApiAttachFind(t)
    \/ \E t \in ApiThreads, kmalloc_ok \in BOOLEAN : ApiAttachAdd(t, kmalloc_ok)
    \/ \E t \in ApiThreads, intact \in BOOLEAN : ApiDetach(t, intact)
    \/ \E t \in ApiThreads, intact \in BOOLEAN : ApiSendCall(t, intact)
    \/ \E t \in ApiThreads : ApiSendReady(t)
    \/ \E t \in ApiThreads, port_number \in MvPorts : ApiSendWrite(t, port_number)
    \/ \E d \in Devs, ack_type \in AckTypes : ApiRemoteAck(d, ack_type)
    \/ \E d \in Devs : MvIrqEnter(d)
    \/ \E t \in ApiThreads : ApiSendDone(t)
    \/ \E t \in ApiThreads : ApiSendResult(t)

(***************************************************************************)
(* Specifications.                                                         *)
(***************************************************************************)
vars == <<sramVars, buildVars, utVars, chanVars, hwVars, sendVars, recvVars,
          cuVars, mvVars>>

InitIdleSend ==
    /\ sram_mutex = 0
    /\ nsend = 0
    /\ st = [t \in Threads |-> IdleSend(<<IPC_PARTNER_RF_DSP, 0>>)]

\* the unit tests exist in DEBUG builds only
InitSpecSram ==
    /\ InitSram /\ InitUt /\ InitChan /\ InitHw /\ InitIdleSend /\ InitRecvIdle
    /\ InitCuIdle /\ InitMv
    /\ DEBUG = TRUE /\ panic = FALSE

SpecSram == InitSpecSram /\ [][NextSram]_vars

InitSpecPin ==
    /\ InitSram /\ InitUt /\ InitChan /\ InitHw /\ InitIdleSend /\ InitRecvIdle
    /\ InitCuIdle /\ InitMv
    /\ DEBUG \in BOOLEAN /\ panic = FALSE

\* pinned allocations in either build
SpecPin == InitSpecPin /\ [][NextPin]_vars

InitSpecChan ==
    /\ InitSram /\ InitUt /\ InitChan /\ InitHw /\ InitIdleSend /\ InitRecvIdle
    /\ InitCuIdle /\ InitMv
    /\ DEBUG \in BOOLEAN /\ panic = FALSE

SpecChan == InitSpecChan /\ [][NextChan]_vars

InitSpecOwn ==
    /\ InitSram /\ InitUt /\ InitChan /\ InitHw /\ InitIdleSend /\ InitRecvIdle
    /\ InitCuIdle /\ InitMv
    /\ DEBUG \in BOOLEAN /\ panic = FALSE

\* callers that may use a released handle again
SpecOwn == InitSpecOwn /\ [][NextOwn]_vars

InitSpecSend ==
    /\ InitSram /\ InitUt /\ InitHw /\ InitSend /\ InitRecvIdle /\ InitCuIdle /\ InitMv
    /\ DEBUG \in BOOLEAN /\ panic = FALSE

SpecSend == InitSpecSend /\ [][NextSend]_vars

InitSpecRecv ==
    /\ InitSram /\ InitUt /\ InitHw /\ InitIdleSend /\ InitRecv /\ InitCuIdle /\ InitMv
    /\ DEBUG \in BOOLEAN /\ panic = FALSE

SpecRecv == InitSpecRecv /\ [][NextRecv]_vars

InitSpecRecvAny ==
    /\ InitSram /\ InitUt /\ InitHw /\ InitIdleSend /\ InitRecvOne /\ InitCuIdle /\ InitMv
    /\ DEBUG \in BOOLEAN /\ panic = FALSE

\* the receiver facing a partner that may send malformed headers
SpecRecvAny == InitSpecRecvAny /\ [][NextRecvAny]_vars

InitSpecCu ==
    /\ InitSram /\ InitUt /\ InitChan /\ InitHw /\ InitIdleSend /\ InitRecvIdle
    /\ InitCu /\ InitMv
    /\ DEBUG \in BOOLEAN /\ panic = FALSE

SpecCu == InitSpecCu /\ [][NextCu]_vars

InitSpecMrvl ==
    /\ InitSram /\ InitUt /\ InitChan /\ InitHw /\ InitIdleSend /\ InitRecvIdle
    /\ InitCuIdle /\ InitMv
    /\ DEBUG = TRUE /\ panic = FALSE

SpecMrvl == InitSpecMrvl /\ [][NextMrvl]_vars

InitSpecApi ==
    /\ InitSram /\ InitUt /\ InitChan /\ InitHw /\ InitIdleSend /\ InitRecvIdle
    /\ InitCuIdle /\ InitMv
    /\ DEBUG = TRUE /\ panic = FALSE

SpecApi == InitSpecApi /\ [][NextApi]_vars

\* the scheduler runs every thread that can take a step (cond_resched in
\* the wait loop); nothing obliges a partner to acknowledge
SpecSendFair ==
    /\ InitSpecSend /\ [][NextSend]_vars
    /\ \A t \in Threads : WF_vars(SendStep(t))

(***************************************************************************)
(* Properties of the page allocator.                                       *)
(***************************************************************************)
Own(regs, p) == IF p < 16 THEN regs[1][p] ELSE regs[2][p - 16]

\* pages s .. s+n-1 exist and are all free in regs
FreeRun(regs, s, n) ==
    /\ s + n <= SHARED_RAM_PAGE_NUM
    /\ \A q \in s .. (s + n - 1) : Own(regs, q) = ownership_free

RunStarts(regs, n) == {s \in Pages : FreeRun(regs, s, n)}

LowestRun(regs, n) == CHOOSE s \in RunStarts(regs, n) :
                          \A t \in RunStarts(regs, n) : s <= t

Changed(pre, post) == {q \in Pages : Own(pre, q) # Own(post, q)}

\* C7: after a successful ipc_sram_alloc(NULL, size), ipc_sram_free of the
\* returned address with the same size leaves exactly the ownership vector
\* that held before the alloc.
C7_AllocFreeRoundTrip ==
    (ut_pc = "freed" /\ ut_call.a1 = NULL) => (Regs = ut_pre /\ ~panic)

C7_Witness ==
    /\ ut_pc = "freed" /\ ut_call.a1 = NULL /\ ut_call.a2 = 7000
    /\ Occupied(Regs) # {}
    /\ ut_ret = pagenum2pageaddr(3)

\* C8: find_consecutive_free_sram_pages(n), n in 1..32, succeeds exactly
\* when some run of n consecutive free pages exists and then returns the
\* lowest start of such a run; with pages {2,6,11,17,24} occupied n = 6
\* gives 18, and without page 24 n = 14 gives 18 and n = 15 fails.
C8_FindLowestRun ==
    ut_pc = "found" =>
        LET n == ut_call.a1 IN
        /\ (ut_ret[1] = 1) <=> (RunStarts(ut_pre, n) # {})
        /\ ut_ret[1] \in {0, 1}
        /\ ut_ret[1] = 1 => ut_ret[2] = LowestRun(ut_pre, n)
        /\ (Occupied(ut_pre) = UnitTestPages /\ n = 6) => ut_ret = <<1, 18>>
        /\ (Occupied(ut_pre) = UnitTestPages \ {24} /\ n = 14) =>
               ut_ret = <<1, 18>>
        /\ (Occupied(ut_pre) = UnitTestPages \ {24} /\ n = 15) =>
               ut_ret[1] = 0

C8_Witness ==
    /\ ut_pc = "found" /\ ut_call.a1 = 6
    /\ Occupied(ut_pre) = UnitTestPages
    /\ ut_ret = <<1, 18>>

\* C9: a successful ipc_sram_alloc(NULL, size) turns exactly ceil(size/1024)
\* pages from free to local, these are the lowest free run of that length,
\* no other page changes, and it returns base + 1024 * start; size 1000 on
\* an all-free region takes page 0 only and returns the base.
C9_AllocLowestRun ==
    (ut_pc = "alloced" /\ ut_call.a1 = NULL /\ ut_ret # NULL) =>
        LET size == ut_call.a2
            n == (size + COLUMBUS_IPC_PAGE_SIZE - 1) \div COLUMBUS_IPC_PAGE_SIZE
            start == LowestRun(ut_pre, n)
        IN  /\ RunStarts(ut_pre, n) # {}
            /\ ut_ret = columbus_ipc_sram + COLUMBUS_IPC_PAGE_SIZE * start
            /\ Changed(ut_pre, Regs) = start .. (start + n - 1)
            /\ \A q \in start .. (start + n - 1) :
                   Own(ut_pre, q) = ownership_free /\ Own(Regs, q) = ownership_a7
            /\ (size = 1000 /\ Occupied(ut_pre) = {}) =>
                   (ut_ret = columbus_ipc_sram /\ Occupied(Regs) = {0})

C9_Witness ==
    /\ ut_pc = "alloced" /\ ut_call.a1 = NULL /\ ut_call.a2 = 2000
    /\ Own(ut_pre, 1) # ownership_free
    /\ ut_ret = pagenum2pageaddr(2)

\* C10: when grab_one_sram_page(p) returns 1 page p is local, after the
\* following release_one_sram_page(p) page p is free, and neither changes
\* the ownership of another page.
C10_GrabRelease ==
    /\ ut_pc = "grabbed" =>
          /\ ut_ret = 1 => Own(Regs, ut_call.a1) = ownership_a7
          /\ Changed(ut_pre, Regs) \subseteq {ut_call.a1}
    /\ ut_pc = "released" =>
          /\ Own(Regs, ut_call.a1) = ownership_free
          /\ Changed(ut_pre, Regs) = {}
          /\ ~panic

C10_Witness ==
    /\ ut_pc = "released" /\ ut_call.a1 = 17
    /\ Own(Regs, 17) = ownership_free
    /\ Occupied(Regs) # {}

(***************************************************************************)
(* Properties of the channel tables.                                       *)
(***************************************************************************)
\* the handles of slot h that are live: returned by get_free_channel and
\* not yet passed to columbus_ipc_put_channel
LiveHandles(h) ==
    Cardinality({t \in Threads : h \in ct[t].held}) +
    Cardinality({t \in Threads : /\ ct[t].pc \in {"get_unlock", "get_set"}
                                 /\ <<ct[t].partner, ct[t].channel>> = h})

\* C1: under every interleaving of get_channel and put_channel calls of
\* several threads no slot has two live handles, and a slot with a live
\* handle is marked used.
C1_NoDoubleHandout ==
    \A h \in PartnerIds \X Slots :
        /\ LiveHandles(h) <= 1
        /\ LiveHandles(h) = 1 => ipc_channel[h[1]][h[2]].used = IPC_CHANNEL_USED

C1_Witness ==
    /\ ct[1].held = {<<IPC_PARTNER_RF_DSP, 1>>}
    /\ ct[2].held = {<<IPC_PARTNER_RF_DSP, 0>>}
    /\ ct[1].pc = "idle" /\ ct[2].pc = "idle"
    /\ ipc_channel[IPC_PARTNER_PLC_DSP][0].magic_1 = COLUMBUS_IPC_INVALID


(***************************************************************************)
(* Properties of columbus_ipc_send_message.                                *)
(***************************************************************************)
\* the flag bit of thread t's channel is set in its partner's flag register
FlagBitSet(t) == channel2num(st[t].chan) \in a7to_flg[st[t].chan[1]]

\* the page run of thread t's send is Local-owned
RunOwned(t) ==
    \A i \in 0 .. (st[t].npages - 1) : Own(Regs, st[t].page_num + i) = ownership_a7

\* C3: while the flag bit of its channel is still set after the notification,
\* a send has not returned and has not begun to release its pages: it is in
\* the wait loop, the loop cannot end (ipc_flag is not 0), and every page of
\* its run is still owned by the A7.
C3_BlockedWhileFlagSet ==
    \A t \in Threads :
        (st[t].notified /\ FlagBitSet(t)) =>
            /\ st[t].pc = "wait"
            /\ st[t].ipc_flag # {}
            /\ RunOwned(t)

\* one send blocked on its set bit with its run owned, another returned
\* after its bit was cleared
C3_Witness ==
    \E t, u \in Threads :
        /\ st[t].pc = "wait" /\ FlagBitSet(t) /\ st[t].npages = 2 /\ RunOwned(t)
        /\ st[u].pc = "done" /\ st[u].notified /\ ~FlagBitSet(u)

\* C4: once the partner has cleared the flag bit of the sending channel, the
\* send leaves its wait loop, frees its pages and returns, whatever the other
\* bits of the flag register are.
C4_WaitOnOwnBitOnly ==
    \A t \in Threads :
        (st[t].pc = "wait" /\ ~FlagBitSet(t)) ~> (st[t].pc = "done")

\* C5: a send that completes returns len; a send whose allocation fails
\* returns -ENOSPC and has written no header register and not set the
\* partner's pending bit.
C5_SendReturnValue ==
    \A t \in Threads :
        st[t].pc = "done" =>
            IF st[t].len = 0 THEN st[t].ret = 0
            ELSE IF st[t].sram = NULL
                 THEN /\ st[t].ret = -ENOSPC
                      /\ ~st[t].wrote
                      /\ ~st[t].notified
                 ELSE /\ st[t].ret = st[t].len
                      /\ st[t].notified

\* one send returned on the capacity-error path, another completed
C5_Witness ==
    \E t, u \in Threads :
        /\ st[t].pc = "done" /\ st[t].len > 0 /\ st[t].sram = NULL
        /\ st[t].ret = -ENOSPC
        /\ st[u].pc = "done" /\ st[u].len > 0 /\ st[u].ret = st[u].len

\* C6: when a send returns successfully and nobody else changed the page
\* ownership since the call, the ownership registers equal those before
\* the call.
C6_SendRestoresOwnership ==
    \A t \in Threads :
        (st[t].pc = "done" /\ st[t].len > 0 /\ st[t].ret = st[t].len
            /\ ~st[t].dist) => Regs = st[t].pre

\* an undisturbed send returned successfully while other pages are occupied
C6_Witness ==
    \E t \in Threads :
        /\ st[t].pc = "done" /\ st[t].len > 0 /\ st[t].ret = st[t].len
        /\ ~st[t].dist /\ st[t].npages = 2
        /\ Regs = st[t].pre /\ Occupied(Regs) # {}


(***************************************************************************)
(* Properties of columbus_ipc_receive_message.                             *)
(***************************************************************************)
\* C2: the messages the receive calls returned are, in order, the messages
\* the partner signalled: none lost, duplicated or reordered (stated for
\* the runs in which no kmalloc failed).
C2_ReceivedInOrder ==
    hist.enomem = 0 =>
        \A i \in 1 .. Len(hist.received) :
            /\ i <= Len(hist.signalled)
            /\ hist.received[i] = hist.signalled[i]


(***************************************************************************)
(* Properties of whole get_channel / put_channel calls of one caller.      *)
(***************************************************************************)
\* the slots of table tbl that are occupied
UsedSlots(tbl) == {i \in Slots : tbl[i].used = IPC_CHANNEL_USED}

\* every slot but h is the same in the two tables
SameBut(pre, post, h) ==
    \A q \in PartnerIds, j \in Slots : <<q, j>> # h => post[q][j] = pre[q][j]

\* the last call was a get that returned
LastGet == cu.last.op = "get" /\ ~panic

\* C11: a get with no appointed index returns NULL in interrupt mode
\* exactly when slots 0..7 of the partner's table are all occupied, and in
\* poll mode exactly when all 16 are.
C11_CapacityByMode ==
    (LastGet /\ cu.last.appointed = COLUMBUS_IPC_INVALID) =>
        LET used == UsedSlots(cu.last.pre[cu.last.partner])
        IN  IF cu.last.mode = IPC_COMMUNICATION_INT
            THEN (cu.last.ret = -1) <=> (0 .. 7) \subseteq used
            ELSE (cu.last.ret = -1) <=> (0 .. 15) \subseteq used

\* after 8 interrupt-mode acquisitions the 9th returned NULL, and a
\* poll-mode acquire would get slot 8
C11_Witness ==
    /\ LastGet /\ cu.last.appointed = COLUMBUS_IPC_INVALID
    /\ cu.last.mode = IPC_COMMUNICATION_INT /\ cu.last.ret = -1
    /\ cu.consec = 8
    /\ get_free_channel(ipc_channel[cu.last.partner], A7_RF_IPC_CHANNEL_NUM,
                        COLUMBUS_IPC_INVALID) = 8

\* C12: a get with no appointed index that succeeds returns the lowest
\* unoccupied slot of the partner's table; from an empty table the i-th
\* acquisition in a row (counted from 0) gets slot i.
C12_LowestFreeSlot ==
    (LastGet /\ cu.last.appointed = COLUMBUS_IPC_INVALID /\ cu.last.ret # -1) =>
        /\ cu.last.ret \notin UsedSlots(cu.last.pre[cu.last.partner])
        /\ (0 .. (cu.last.ret - 1)) \subseteq
               UsedSlots(cu.last.pre[cu.last.partner])
        /\ (cu.last.partner = cu.fill[1] /\ cu.consec >= 1) =>
               cu.last.ret = cu.consec - 1

\* the 16th acquisition in a row got slot 15
C12_Witness ==
    /\ LastGet /\ cu.last.appointed = COLUMBUS_IPC_INVALID
    /\ cu.last.partner = cu.fill[1] /\ cu.consec = 16 /\ cu.last.ret = 15

C14_PutChannel ==
    (DEBUG /\ cu.last.op = "put") =>
        LET h == <<cu.last.partner, cu.last.appointed>>
            c == cu.last.pre[h[1]][h[2]]
        IN  IF \/ c.used # IPC_CHANNEL_USED
               \/ c.magic_1 # COLUMBUS_IPC_REQ_MAGIC_1
               \/ c.magic_2 # COLUMBUS_IPC_REQ_MAGIC_2
            THEN panic /\ ipc_channel = cu.last.pre
            ELSE /\ ~panic
                 /\ ipc_channel[h[1]][h[2]] =
                        [magic_1 |-> COLUMBUS_IPC_INVALID,
                         used |-> IPC_CHANNEL_UNUSED,
                         partner |-> COLUMBUS_IPC_INVALID,
                         operation |-> COLUMBUS_IPC_INVALID,
                         mode |-> COLUMBUS_IPC_INVALID,
                         magic_2 |-> COLUMBUS_IPC_INVALID]
                 /\ SameBut(cu.last.pre, ipc_channel, h)
                 /\ get_free_channel(ipc_channel[h[1]], A7_RF_IPC_CHANNEL_NUM,
                                     h[2]) = h[2]

\* a second live handle was put in a DEBUG build
C14_Witness ==
    /\ DEBUG /\ cu.last.op = "put" /\ ~panic /\ cu.nput = 2
    /\ cu.last.pre[cu.last.partner][cu.last.appointed].used = IPC_CHANNEL_USED


(***************************************************************************)
(* Properties of the header handling of columbus_ipc_receive_message.      *)
(***************************************************************************)
\* the address the receiver read lies in the window of its partner's view
InWindow ==
    /\ rv.address >= (IF rv.chan[1] = IPC_PARTNER_RF_DSP
                      THEN COLUMBUS_SRAM_RF_VIEW ELSE COLUMBUS_SRAM_PLC_VIEW)
    /\ rv.address < (IF rv.chan[1] = IPC_PARTNER_RF_DSP
                     THEN COLUMBUS_SRAM_RF_VIEW ELSE COLUMBUS_SRAM_PLC_VIEW)
                    + 32768

\* the receive call got a buffer and is about to return it
RecvGotBuffer ==
    rv.pc = "done" /\ rv.command = IPC_DATA_READ /\ rv.ret # -ENOMEM

\* C15: for a DataReady header the payload is copied into the returned
\* buffer exactly when the upper half of data1 is the end-of-message marker,
\* and the returned length is data0 either way.
C15_CopyIffEndMarker ==
    RecvGotBuffer =>
        /\ rv.copied <=> (rv.data1 \div 65536 = 1)
        /\ rv.ret = rv.data0
        /\ (rv.copied /\ InWindow /\ rv.address % 1024 = 0) =>
               rv.msg_buf = sram_mem[(rv.address -
                   (IF rv.chan[1] = IPC_PARTNER_RF_DSP
                    THEN COLUMBUS_SRAM_RF_VIEW ELSE COLUMBUS_SRAM_PLC_VIEW))
                   \div 1024]

\* a DataReady message without the marker was returned uncopied with its
\* advertised length
C15_Witness ==
    /\ RecvGotBuffer /\ ~rv.copied /\ rv.data1 \div 65536 = 2
    /\ rv.ret = 200 /\ InWindow

\* C16: in a DEBUG build a DataReady header with an address outside the
\* partner's window stops the receive at its check: no translated address,
\* no buffer, no copy, no return.
C16_BadAddressFatal ==
    (DEBUG /\ rv.command = IPC_DATA_READ /\ ~InWindow) =>
        /\ rv.pc = "copy"
        /\ ~rv.copied
        /\ rv.msg_buf = 0
        /\ rv.ret = 0

\* the receive died on an address just past the window
C16_Witness ==
    /\ DEBUG /\ panic /\ rv.pc = "copy" /\ rv.command = IPC_DATA_READ
    /\ rv.address = sram_view(rv.chan[1]) + COLUMBUS_IPC_SRAM_SIZE


(***************************************************************************)
(* Properties of the header columbus_ipc_send_message writes.              *)
(***************************************************************************)
\* thread t writes its header registers in this step
WritesHdr(t) == st[t].pc = "hdr" /\ st'[t].pc = "notify"

C20_GrabLoopsSerialized ==
    LET inside == {t \in Threads :
                     st[t].pc \in {"alloc_grab", "alloc_unlock",
                                   "free_rel", "free_unlock"}}
    IN  /\ Cardinality(inside) <= 1
        /\ \A t \in inside : sram_mutex = t

\* one thread is in the middle of its grab loop while the other waits for
\* the mutex
C20_Witness ==
    \E t, u \in Threads :
        /\ st[t].pc = "alloc_grab" /\ st[t].i = 1
        /\ st[u].pc \in {"alloc_lock", "free_lock"}


(***************************************************************************)
(* Independence of the two channel tables.                                 *)
(***************************************************************************)
\* thread t takes a step of its get_channel or put_channel call
ChStepOf(t) == ct'[t] # ct[t]

\* C18: a thread waiting for the lock of its partner's table proceeds as
\* soon as that table's mutex is free, whoever holds the other table's
\* mutex; and a table changes only in a step of a thread that works on
\* that partner.
C18_TablesIndependent ==
    /\ [](\A t \in Threads :
            /\ (ct[t].pc = "get_lock" /\ tbl_mutex[ct[t].partner] = 0)
                   => ENABLED ChGetLock(t)
            /\ (ct[t].pc = "put_lock" /\ tbl_mutex[ct[t].partner] = 0)
                   => ENABLED ChPutLock(t))
    /\ [][\A p \in PartnerIds :
            ipc_channel'[p] # ipc_channel[p] =>
                \E t \in Threads : ChStepOf(t) /\ ct[t].partner = p]_vars

\* thread 2 marks a slot of the PLC table under the PLC mutex while
\* thread 1 holds the RF mutex
C18_Witness ==
    /\ tbl_mutex[IPC_PARTNER_RF_DSP] = 1
    /\ tbl_mutex[IPC_PARTNER_PLC_DSP] = 2
    /\ ct[2].pc = "get_unlock" /\ ct[2].partner = IPC_PARTNER_PLC_DSP
    /\ ipc_channel[IPC_PARTNER_PLC_DSP][ct[2].channel].used = IPC_CHANNEL_USED


(***************************************************************************)
(* Properties of the Marvell IPC driver's receive path.                    *)
(***************************************************************************)
\* the driver has nothing left to do: no handler runs, no work is queued
\* or running, and no command waits behind an installed handler
MvQuiescent ==
    /\ ~mv.oops
    /\ mv.queued = 0
    /\ mv.w.pc = "idle"
    /\ \A d \in Devs : mv.isr[d].pc = "idle" /\ ~(mv.irq_on[d] /\ mv.rx[d].cmdbit)

\* C19: a command that came in on a port with an attached listener gets its
\* receive callback exactly once, and the remote side sees PROCESSED only
\* after that callback returned; a command on a port without a listener
\* gets no callback and the remote side sees DISCARDED.  A command whose
\* port was attached or detached while it was in flight is left out.
C19_CallbackOncePerCommand ==
    \A i \in Cmds :
      /\ mv.stable[i] = "listener" =>
           /\ mv.ncb[i] <= 1
           /\ mv.result[i] # 0 =>
                /\ mv.result[i] = ACK_MSG_PROCESSED
                /\ mv.ncb[i] = 1
                /\ mv.incb # i
           /\ (MvQuiescent /\ mv.taken[i]) =>
                (mv.ncb[i] = 1 /\ mv.result[i] = ACK_MSG_PROCESSED)
      /\ mv.stable[i] = "nolistener" =>
           /\ mv.ncb[i] = 0
           /\ mv.result[i] # 0 => mv.result[i] = ACK_MSG_DISCARDED
           /\ (MvQuiescent /\ mv.taken[i]) => mv.result[i] = ACK_MSG_DISCARDED


(***************************************************************************)
(* Failures of the page allocator.                                         *)
(***************************************************************************)
\* the run a direct try_to_grab_sram_pages call works on: the page asked
\* for, or the lowest free run when it asked for none (-1 if there is none)
TgStart ==
    IF ut_call.a1 # -1 THEN ut_call.a1
    ELSE IF RunStarts(ut_pre, ut_call.a2) # {}
         THEN LowestRun(ut_pre, ut_call.a2) ELSE -1

\* the places of the run that cannot be grabbed: taken before the call, or
\* won by a partner just before the local request
TgBad ==
    {k \in 0 .. (ut_call.a2 - 1) :
        \/ Own(ut_pre, TgStart + k) # ownership_free
        \/ ut_call.race[1] = k}

TgFirstBad == CHOOSE k \in TgBad : \A j \in TgBad : k <= j

\* C21: when page start+k is the first page of the run that cannot be
\* grabbed, try_to_grab_sram_pages returns -1, pages start..start+k-1 are
\* left local, and every other page is as it was (page start+k being the
\* partner's when the partner won it during the call); with page 3 owned a
\* 2-page request at page 2 fails and leaves page 2 local.
C21_PartialGrabNotRolledBack ==
    (ut_pc = "trygrabbed" /\ TgStart # -1 /\ TgBad # {}) =>
        LET start == TgStart
            k == TgFirstBad
            grabbed == start .. (start + k - 1)
        IN  /\ ut_ret = -1
            /\ \A p \in grabbed : Own(Regs, p) = ownership_a7
            /\ \A p \in Pages \ grabbed :
                  Own(Regs, p) =
                    IF p = start + k /\ Own(ut_pre, p) = ownership_free
                    THEN ut_call.race[2]
                    ELSE Own(ut_pre, p)
            /\ (Occupied(ut_pre) = {3} /\ ut_call.a1 = 2 /\ ut_call.a2 = 2
                /\ ut_call.race[1] = -1) =>
                  (Own(Regs, 2) = ownership_a7 /\ Occupied(Regs) = {2, 3})

C21_Witness ==
    /\ ut_pc = "trygrabbed" /\ ut_call.a1 = 2 /\ ut_call.a2 = 2
    /\ Occupied(ut_pre) = {3} /\ ut_call.race[1] = -1
    /\ ut_ret = -1
    /\ Own(Regs, 2) = ownership_a7


\* a request the allocator must turn down: a size outside (0, 32768], an
\* address off the 1024-byte grid, or an address outside the shared region
BadAllocRequest(addr, size) ==
    \/ size <= 0
    \/ size > 32768
    \/ addr % 1024 # 0
    \/ addr # NULL /\ ~(\E p \in Pages : addr = columbus_ipc_sram + 1024 * p)

\* C22: ipc_sram_alloc returns NULL, writes no ownership request and leaves
\* the ownership registers as they were when the size is <= 0 or > 32768,
\* when the address is not 1024-aligned, or when it lies outside the region.
C22_AllocRejects ==
    (ut_pc = "alloced" /\ BadAllocRequest(ut_call.a1, ut_call.a2)) =>
        /\ ut_ret = NULL
        /\ Regs = ut_pre
        /\ ut_call.req = <<>>

C22_Witness ==
    /\ ut_pc = "alloced"
    /\ ut_call.a1 = columbus_ipc_sram + 100 /\ ut_call.a2 = 1000
    /\ Occupied(ut_pre) = {3}
    /\ ut_ret = NULL /\ Regs = ut_pre


\* the ownership requests the last allocator call wrote
LastRequests == {ut_call.req[i] : i \in 1 .. Len(ut_call.req)}

\* C23: in a DEBUG build no allocator call changes a page that a partner
\* owns: a grab requests only a page it read as free, a release requests
\* only a page it read as local, a page the partner held when a request
\* arrived stays the partner's, and releasing a page that is not local is
\* fatal with no request written.
C23_PartnerPagesUntouched ==
    /\ \A p \in Pages :
          Own(ut_pre, p) \in Partners => Own(Regs, p) = Own(ut_pre, p)
    /\ \A r \in LastRequests :
          /\ r.requested = ownership_a7 => r.read = ownership_free
          /\ r.requested = ownership_free => r.read = ownership_a7
          /\ r.cur \in Partners => Own(Regs, r.page) = r.cur
    /\ (ut_pc = "released1" /\ Own(ut_pre, ut_call.a1) # ownership_a7) =>
          (panic /\ ut_call.req = <<>> /\ Regs = ut_pre)

C23_Witness ==
    /\ ut_pc = "released1"
    /\ Own(ut_pre, ut_call.a1) = ownership_rf
    /\ panic
    /\ Own(Regs, ut_call.a1) = ownership_rf


\* C24: grab_one_sram_page(p) returns 0 and writes no request when p is not
\* free; it returns 1 only when the page reads local after its request, so
\* never for a page a partner owns then (a partner that won the page
\* between the first read and the request makes it return 0).
C24_GrabReportsTruth ==
    ut_pc = "grabbed" =>
        LET p == ut_call.a1 IN
        /\ ut_ret \in {0, 1}
        /\ Own(ut_pre, p) # ownership_free =>
              (ut_ret = 0 /\ ut_call.req = <<>> /\ Regs = ut_pre)
        /\ ut_ret = 1 <=> (/\ Own(ut_pre, p) = ownership_free
                           /\ Own(Regs, p) = ownership_a7)
        /\ Own(Regs, p) \in Partners => ut_ret = 0

C24_Witness ==
    /\ ut_pc = "grabbed"
    /\ Own(ut_pre, ut_call.a1) = ownership_free
    /\ ut_call.a2 = ownership_rf
    /\ Own(Regs, ut_call.a1) = ownership_rf
    /\ Len(ut_call.req) = 1
    /\ ut_ret = 0


(***************************************************************************)
(* The order of the steps of a send and of a receive.                      *)
(***************************************************************************)
\* the pages that hold the message of the send thread t is in
SendRun(t) == st[t].page_num .. (st[t].page_num + size2npages(st[t].len) - 1)

\* thread t has written the four header registers of its partner; they hold
\* its header, or the complete header of a later sender to the same partner
\* (the header registers are one set per partner)
SendHdrInPlace(t) ==
    LET hdr == a7to_hdr[st[t].chan[1]] IN
    /\ st[t].wrote
    /\ hdr.comm = IPC_DATA_READ
    /\ \/ /\ hdr.data0 = st[t].len
          /\ hdr.data1 % 65536 = st[t].page_num
       \/ /\ hdr.data0 \in 1 .. (SHARED_RAM_PAGE_NUM * COLUMBUS_IPC_PAGE_SIZE)
          /\ hdr.data1 % 65536 \in Pages

\* C25: in every send the channel's pending bit is set only when the
\* message is in pages the local side owns and the four header registers
\* were written; the ack write comes only after the flag register was read
\* as clear, and the pages are released only after the ack write.
C25_SendStepOrder ==
    [][ /\ \A t \in Threads :
            /\ (st[t].pc = "notify" /\ st'[t].pc = "wait") =>
                  /\ \A p \in SendRun(t) :
                        Own(Regs, p) = ownership_a7 /\ sram_mem[p] = st[t].len
                  /\ st[t].wrote /\ SendHdrInPlace(t)
                  /\ channel2num(st[t].chan) \in a7to_flg'[st[t].chan[1]]
            /\ (st[t].pc = "ack" /\ st'[t].pc = "free_lock") =>
                  /\ st[t].notified /\ st[t].seen_clear
                  /\ \A p \in SendRun(t) : Own(Regs, p) = ownership_a7
            /\ (st[t].pc = "free_rel" /\ st'[t].pc # "free_rel") =>
                  st[t].acked
        /\ \A partner \in PartnerIds, n \in Slots :
              (n \notin a7to_flg[partner] /\ n \in a7to_flg'[partner]) =>
                 \E t \in Threads : /\ st[t].chan = <<partner, n>>
                                    /\ st[t].pc = "notify"
        /\ \A p \in Pages :
              (Own(Regs, p) = ownership_a7 /\ Own(Regs', p) = ownership_free) =>
                 \E t \in Threads : /\ st[t].pc = "free_rel" /\ st[t].acked
                                    /\ st[t].seen_clear
                                    /\ p = st[t].page_num + st[t].i
      ]_vars

C25_Witness ==
    \E t \in Threads :
        /\ st[t].pc = "done" /\ st[t].ret = 2000
        /\ st[t].notified /\ st[t].seen_clear /\ st[t].acked
        /\ \A p \in SendRun(t) : Own(Regs, p) = ownership_free

\* C26: a receive writes the channel's bit to the ack register first, then
\* waits, and reads the four header registers only after the wait has ended
\* on a signal the partner raised after that write: the wait starts only
\* after the ack write, ends only on a completion or on a status read that
\* shows the channel's bit, and the header values are taken only by the
\* step that follows the end of the wait.
C26_RecvStepOrder ==
    [][ /\ (rv'.pc \in {"init", "poll"} /\ rv.pc # rv'.pc) =>
              /\ rv.pc = "ack" /\ rv'.acked /\ ~rv'.seen
              /\ channel2num(rv.chan) \notin toa7_sts'[rv.chan[1]]
        /\ (rv.pc \in {"wait", "poll"} /\ rv'.pc \notin {"wait", "poll"}) =>
              /\ rv.acked /\ rv'.seen
              /\ Len(hist.signalled) > rv.nsig
              /\ rv.pc = "wait" => ipc_irq[IrqOf(rv.chan)].done > 0
              /\ rv.pc = "poll" => channel2num(rv.chan) \in toa7_sts[rv.chan[1]]
        /\ (rv.pc = "read" /\ rv'.pc = "copy") =>
              rv.acked /\ rv.seen /\ Len(hist.signalled) > rv.nsig
        /\ <<rv'.command, rv'.address, rv'.data0, rv'.data1>> #
              <<rv.command, rv.address, rv.data0, rv.data1>> =>
              \/ rv.pc = "read" /\ rv'.pc = "copy"
              \/ rv'.pc \in {"idle", "ack"}
      ]_vars

\* a receive in either mode has read the header of a message signalled
\* after its initial ack
C26_Witness ==
    /\ rv.pc = "copy" /\ rv.acked /\ rv.seen
    /\ rv.command = IPC_DATA_READ
    /\ Len(hist.signalled) = rv.nsig + 1
    /\ Len(hist.signalled) >= 2

\* C27: an interrupt line is enabled only while an interrupt-mode receive
\* on its channel is between enable_irq and disable_irq: every other line
\* is disabled (as probe left it), the completion of the receive's line is
\* freshly initialised when the line is about to be enabled, the line is
\* enabled during the wait and disabled from disable_irq to the return.
C27_IrqEnabledOnlyInReceive ==
    /\ \A n \in IrqNums :
          ipc_irq[n].enabled =>
             /\ n = IrqOf(rv.chan)
             /\ rv.pc \in {"wait", "disable"}
             /\ RecvChannel.mode = IPC_COMMUNICATION_INT
    /\ rv.pc = "enable" => ipc_irq[IrqOf(rv.chan)].done = 0
    /\ rv.pc = "wait" => ipc_irq[IrqOf(rv.chan)].enabled

\* a second interrupt-mode receive from the PLC DSP waits with its line
\* enabled, after the first one returned with the line disabled
C27_Witness ==
    /\ rv.pc = "wait" /\ rv.chan[1] = IPC_PARTNER_PLC_DSP
    /\ ipc_irq[IrqOf(rv.chan)].enabled
    /\ Len(hist.received) >= 1

(***************************************************************************)
(* The interrupt handler.                                                  *)
(***************************************************************************)
\* the handler of line n has run: it is the only step that adds to a
\* completion
HandlerRan(n) == ipc_irq'[n].done > ipc_irq[n].done

\* C28: the handler signals the completion of its line only when the
\* channel of the line was acquired for receiving; on a channel acquired
\* for sending it signals no completion.
C28_CompleteOnlyForReceive ==
    [][ \A n \in IrqNums :
           HandlerRan(n) =>
              ipc_channel[IrqPartner(n)][IrqChannelNum(n)].operation =
                 IPC_RECEIVE_OPERATION
      ]_vars

\* C29: the handler of line k acts on partner k div 8 and channel k mod 8:
\* it adds one to completion k and leaves every other completion and every
\* enable state alone, completion k is the one an interrupt-mode receive on
\* that partner and channel initialises and waits on, and the handler's
\* last write clears bit k mod 8 of that partner's status register and no
\* other bit.
C29_HandlerActsOnItsLine ==
    [][ /\ \A k \in IrqNums :
              /\ IrqPartner(k) = k \div IPC_IRQ_CHANNEL_NUM
              /\ IrqChannelNum(k) = k % IPC_IRQ_CHANNEL_NUM
              /\ IrqOf(<<IrqPartner(k), IrqChannelNum(k)>>) = k
              /\ HandlerRan(k) =>
                    /\ ipc_irq' = [ipc_irq EXCEPT ![k].done = @ + 1]
                    /\ IrqChannelNum(k) \in toa7_sts[IrqPartner(k)]
                    /\ toa7_sts' = [toa7_sts EXCEPT ![IrqPartner(k)] =
                                       @ \ {IrqChannelNum(k)}]
                    /\ rv.chan = <<IrqPartner(k), IrqChannelNum(k)>>
                    /\ rv.pc \in {"wait", "disable"}
                    /\ UNCHANGED <<rv, toa7_hdr, ipc_channel, sram_mem, panic>>
        /\ (rv.pc = "wait" /\ rv'.pc # "wait") =>
              /\ ipc_irq[IrqOf(rv.chan)].done > 0
              /\ ipc_irq' = [ipc_irq EXCEPT ![IrqOf(rv.chan)].done = @ - 1]
      ]_vars

\* the handler of line 13 has signalled the completion of a receive from
\* the PLC DSP on channel 5 and cleared the channel's status bit
C29_Witness ==
    /\ rv.chan = <<IPC_PARTNER_PLC_DSP, 5>> /\ rv.pc = "wait"
    /\ ipc_irq[13].done = 1
    /\ \A n \in IrqNums \ {13} : ipc_irq[n].done = 0
    /\ 5 \notin toa7_sts[IPC_PARTNER_PLC_DSP]
    /\ Len(hist.signalled) >= 1

(***************************************************************************)
(* Concurrent calls of ipc_sram_alloc.                                     *)
(***************************************************************************)
\* thread t is in a call that started ipc_sram_alloc(NULL, len) with a
\* valid len while every page was Free, and no partner won a page from it
AllocNullCall(t) ==
    /\ st[t].pc # "idle"
    /\ st[t].page_arg = -1
    /\ st[t].len \in 1 .. COLUMBUS_IPC_SRAM_SIZE
    /\ st[t].pre = <<AllFree, AllFree>>
    /\ ~st[t].lost

\* ipc_sram_alloc of thread t has returned
AllocReturned(t) ==
    st[t].pc \notin {"idle", "alloc_find", "alloc_lock", "alloc_grab",
                     "alloc_unlock"}

\* thread t holds the pages ipc_sram_alloc granted it
AllocHeld(t) ==
    st[t].pc \in {"copy", "hdr", "notify", "wait", "ack", "free_lock"}

\* C30: when two threads are each in ipc_sram_alloc(NULL, s), both calls
\* having started with every page Free and no partner taking a page, both
\* calls return a run of pages, and while both hold their runs the runs
\* are disjoint.
C30_ConcurrentAllocsSucceed ==
    \A t \in Threads, u \in Threads :
       (/\ t # u
        /\ AllocNullCall(t) /\ AllocNullCall(u)
        /\ AllocReturned(t) /\ AllocReturned(u)) =>
          /\ st[t].sram # NULL /\ st[u].sram # NULL
          /\ st[t].ret # send_enospc /\ st[u].ret # send_enospc
          /\ (AllocHeld(t) /\ AllocHeld(u)) =>
                SendRun(t) \cap SendRun(u) = {}

(***************************************************************************)
(* The header registers under concurrent sends.                            *)
(***************************************************************************)
\* the header registers of thread t's partner hold the header of t's send
SendHdrIsOwn(t) ==
    a7to_hdr[st[t].chan[1]] =
       [comm |-> IPC_DATA_READ,
        addr |-> send_hdr_addr(st[t].page_num),
        data0 |-> st[t].len,
        data1 |-> st[t].page_num + IPC_END_MSG * 65536]

\* C31: while the pending bit of a channel is set, which is when the
\* partner reads the header, the header registers of that partner hold the
\* header written by the send on that channel, also when another send to
\* the same partner runs on another channel.
C31_HeaderOfPendingChannel ==
    \A t \in Threads :
       (/\ st[t].pc = "wait"
        /\ channel2num(st[t].chan) \in a7to_flg[st[t].chan[1]]) =>
          SendHdrIsOwn(t)

(***************************************************************************)
(* Released handles.                                                       *)
(***************************************************************************)
\* thread x has just called columbus_ipc_put_channel on the handle h it had
\* released, while thread y holds the slot of h
StalePutOn(x, y, h) ==
    /\ x # y
    /\ ct[x].pc = "put_old" /\ ct[x].old = h
    /\ h \in ct[y].held

\* C32: a second columbus_ipc_put_channel on a released handle, made after
\* another thread acquired the slot, is fatal in a DEBUG build and leaves
\* the slot occupied with the new holder's fields.
C32_StalePutRejected ==
    \A x \in Threads, y \in Threads, h \in PartnerIds \X Slots :
       (DEBUG /\ StalePutOn(x, y, h)) =>
          /\ panic
          /\ ipc_channel[h[1]][h[2]].used = IPC_CHANNEL_USED
          /\ ipc_channel[h[1]][h[2]].partner = h[1]
          /\ ipc_channel[h[1]][h[2]].operation = OperationOf(y)

(***************************************************************************)
(* Pages after the sends returned.                                         *)
(***************************************************************************)
\* C33: whenever no columbus_ipc_send_message call is in progress, no page
\* of the shared region is owned by the local side, whatever sends,
\* successful or failed, were made before.
C33_NoPageLeaked ==
    (\A t \in Threads : st[t].pc = "idle") =>
        \A p \in Pages : Own(Regs, p) # ownership_a7

(***************************************************************************)
(* Page indexes the allocator touches.                                     *)
(***************************************************************************)
\* C34: ipc_sram_alloc with a requested address reads and requests the
\* ownership of pages 0..31 only; when the run asked for passes the end of
\* the region (p + n > 32) it returns NULL, without an IPC_BUG and without
\* touching a page index of 32 or more.
C34_PageIndexInRange ==
    ut_call.op = "pinned" =>
        /\ ~panic
        /\ ut_call.top \in Pages
        /\ ut_call.a1 + ut_call.a2 > SHARED_RAM_PAGE_NUM => ut_ret = NULL

(***************************************************************************)
(* What a receive copies and hands to its caller.                          *)
(***************************************************************************)
\* the receive has copied data0 bytes from the advertised address
RecvCopied == rv.pc = "done" /\ rv.ret >= 0 /\ rv.copied

\* C35: the bytes a receive copies lie inside the 32 KiB shared region: the
\* offset of the advertised address in the partner's window is not
\* negative and offset plus advertised length is at most 32768.
C35_CopyInsideRegion ==
    RecvCopied =>
        /\ rv.address >= sram_view(rv.chan[1])
        /\ (rv.address - sram_view(rv.chan[1])) + rv.data0 <=
              COLUMBUS_IPC_SRAM_SIZE

\* the receive call hands *message and a length to its caller
RecvHandsBack == rv.pc = "done" /\ rv.ret >= 0

\* C36: the pointer a receive hands back with a length was assigned by the
\* kmalloc of this call, also when the command read is not DataReady.
C36_BufferAllocatedInCall ==
    RecvHandsBack => rv.alloc

(***************************************************************************)
(* Interrupt-mode slots and their completion entries.                      *)
(***************************************************************************)
\* slot i of partner p is occupied and stamped with interrupt mode
IntSlot(p, i) ==
    /\ ipc_channel[p][i].used = IPC_CHANNEL_USED
    /\ ipc_channel[p][i].mode = IPC_COMMUNICATION_INT

\* C37: in a DEBUG build every occupied slot stamped with interrupt mode
\* has an index below 8, whether it was appointed or not, so the entry of
\* ipc_irq[] an interrupt-mode receive on it uses is one of the 16 and is
\* the line of that partner and that channel.
C37_IntSlotBelowEight ==
    DEBUG =>
        \A p \in PartnerIds, i \in Slots :
            IntSlot(p, i) =>
                /\ i < IPC_IRQ_CHANNEL_NUM
                /\ IrqOf(<<p, i>>) \in IrqNums
                /\ IrqPartner(IrqOf(<<p, i>>)) = p
                /\ IrqChannelNum(IrqOf(<<p, i>>)) = i

\* slots 0..7 of the RF table are interrupt-mode slots, slot 0 taken again
\* by its index after a put, and slot 0 of the PLC table is one too
C37_Witness ==
    /\ DEBUG /\ ~panic
    /\ \A i \in 0 .. (IPC_IRQ_CHANNEL_NUM - 1) : IntSlot(IPC_PARTNER_RF_DSP, i)
    /\ IntSlot(IPC_PARTNER_PLC_DSP, 0)
    /\ cu.last.op = "get" /\ cu.last.appointed = 0 /\ cu.last.ret = 0
    /\ cu.last.partner = IPC_PARTNER_RF_DSP
    /\ cu.last.mode = IPC_COMMUNICATION_INT

(***************************************************************************)
(* The Marvell IPC driver: the open-port list and ipc_send.                *)
(***************************************************************************)
\* C38: the open-port list of a device never holds two entries with the same
\* port number, an ipc_attach that added an entry did so for a port that
\* was not attached, and open_count is the length of the list.
C38_NoDuplicatePort ==
    /\ \A d \in Devs :
          /\ \A i \in 1 .. Len(mv.list[d]), k \in 1 .. Len(mv.list[d]) :
                 mv.list[d][i][2] = mv.list[d][k][2] => i = k
          /\ mv.open_count[d] = Len(mv.list[d])
    /\ \A t \in ApiThreads :
          (mv.api[t].last.op = "attach" /\ mv.api[t].last.ret # NULL) =>
              ~mv.api[t].last.attached

\* the threads whose command to device d is written and whose
\* acknowledgment is not consumed, or consumed and not yet read
InFlight(d) ==
    {t \in ApiThreads : /\ mv.api[t].pc \in {"tx_done", "tx_result"}
                        /\ mv.api[t].device = d}

\* ipc_send of thread t has returned
SendReturned(t) == mv.api[t].pc = "idle" /\ mv.api[t].last.op = "send"

\* C39: per device at most one ipc_send is between its register writes and
\* the use of its acknowledgment; the acknowledgment a send consumes
\* answers its own command; it returns e_IPC_SUCCESS exactly for PROCESSED
\* and e_IPC_NO_LISTENER exactly for DISCARDED; with a NULL handle it
\* returns e_IPC_ERROR and writes no register.
C39_SendSerialized ==
    /\ \A d \in Devs : Cardinality(InFlight(d)) <= 1
    /\ \A t \in ApiThreads :
          /\ mv.api[t].pc = "tx_result" => mv.ack_of[mv.api[t].device] = t
          /\ (SendReturned(t) /\ mv.api[t].handle # NoPort) =>
                /\ mv.api[t].last.wrote
                /\ mv.api[t].last.ack_of = t
                /\ mv.api[t].last.given \in AckTypes
                /\ mv.api[t].last.ret = e_IPC_SUCCESS <=>
                      mv.api[t].last.given = ACK_MSG_PROCESSED
                /\ mv.api[t].last.ret = e_IPC_NO_LISTENER <=>
                      mv.api[t].last.given = ACK_MSG_DISCARDED
          /\ (SendReturned(t) /\ mv.api[t].handle = NoPort) =>
                /\ mv.api[t].last.ret = e_IPC_ERROR
                /\ ~mv.api[t].last.wrote

\* thread 1's send on a device returned e_IPC_NO_LISTENER, thread 2's send
\* on the same device has consumed a PROCESSED acknowledgment, and a send
\* with no handle is excluded by thread 1 holding its port
C39_Witness ==
    /\ SendReturned(1) /\ mv.api[1].handle # NoPort
    /\ mv.api[1].last.ret = e_IPC_NO_LISTENER
    /\ mv.api[2].pc = "tx_result"
    /\ mv.api[2].device = mv.api[1].handle[1]
    /\ mv.ack_type[mv.api[2].device] = ACK_MSG_PROCESSED

====
